---- MODULE Spec2Model ----
(***************************************************************************)
(* DataFusion file merger: FileMerger.process_files and the helpers it     *)
(* calls (load_data, suggest_column_mapping, the pandas operations concat, *)
(* merge, fillna, drop_duplicates), as a state machine.                    *)
(*                                                                         *)
(* A table is a record [cols, rows]: cols is the sequence of column labels *)
(* and rows the sequence of rows, each a sequence of cells aligned with    *)
(* cols.  A cell is an integer; NA is the missing marker (NaN).            *)
(***************************************************************************)
EXTENDS Integers, Sequences, FiniteSets, TLC

VARIABLES
    uploaded_files,   \* argument of process_files: the uploaded files, in order
    options,          \* argument of process_files: the options dict (mutable)
    pc,               \* position in process_files
    i,                \* loop index of the loop pc is in
    dfs,              \* local list of the tables loaded so far / cleaned
    file_names,       \* local list of the names (positions) of the files in dfs
    error_messages,   \* local list of error messages
    attempted,        \* positions of the files load_data has been called on
    diagnostics,      \* st.info / st.warning / st.success messages emitted
    ret,              \* the returned pair [df, errors], NoReturn before return
    merged_df,        \* st.session_state.merged_df
    last_merge_time,  \* st.session_state.last_merge_time
    original_merged_df, \* st.session_state.original_merged_df
    call,             \* the utility function being called and its arguments
    at,               \* position in that function
    events,           \* the calls it has made and the records it has logged
    outcome           \* its return value, NoResult before it returns

\* the state of a call of process_files
merger == << uploaded_files, options, pc, i, dfs, file_names, error_messages,
             attempted, diagnostics, ret, merged_df, last_merge_time,
             original_merged_df >>

\* the state of a call of a utility function
util == << call, at, events, outcome >>

vars == << uploaded_files, options, pc, i, dfs, file_names, error_messages,
           attempted, diagnostics, ret, merged_df, last_merge_time,
           original_merged_df, call, at, events, outcome >>

-----------------------------------------------------------------------------
(* Bounds of the model *)

\* files per call and rows per table, when labels and load failures vary
MaxFiles == 2
MaxRows == 2
\* rows over all files of a call, when cell values vary
MaxTotalRows == 3

-----------------------------------------------------------------------------
(* Values *)

NA == -1
None == "None"

IsNA(v) == v = NA

-----------------------------------------------------------------------------
(* Sequences *)

SeqToSet(s) == { s[k] : k \in 1..Len(s) }

Contains(s, x) == \E k \in 1..Len(s) : s[k] = x

IndexOf(s, x) == CHOOSE k \in 1..Len(s) : s[k] = x /\ \A m \in 1..(k-1) : s[m] # x

RECURSIVE Flatten(_)
Flatten(ss) == IF ss = << >> THEN << >> ELSE Head(ss) \o Flatten(Tail(ss))

RECURSIVE SumSeq(_)
SumSeq(s) == IF s = << >> THEN 0 ELSE Head(s) + SumSeq(Tail(s))

IsUniqueSeq(s) == \A a, b \in 1..Len(s) : s[a] = s[b] => a = b

-----------------------------------------------------------------------------
(* Column labels.  A label is a string; Chars gives its characters, so    *)
(* that str.lower() and the similarity ratio are computed, not assumed.    *)

Chars(name) ==
    CASE name = "id"  -> << "i", "d" >>
      [] name = "ID"  -> << "I", "D" >>
      [] name = "idx" -> << "i", "d", "x" >>
      [] name = "ids" -> << "i", "d", "s" >>
      [] name = "idy" -> << "i", "d", "y" >>
      [] name = "idz" -> << "i", "d", "z" >>
      [] name = "x"   -> << "x" >>
      [] name = ""    -> << >>

KnownNames == { "id", "ID", "idx", "ids", "idy", "idz", "x", "" }

LowerChar(c) ==
    CASE c = "I" -> "i"
      [] c = "D" -> "d"
      [] OTHER   -> c

LowerChars(cs) == [ k \in 1..Len(cs) |-> LowerChar(cs[k]) ]

\* str.lower()
Lower(name) == CHOOSE m \in KnownNames : Chars(m) = LowerChars(Chars(name))

\* f"{name}_{k}"
Suffixed(name, k) == name \o "_" \o ToString(k)

-----------------------------------------------------------------------------
(* difflib.SequenceMatcher(None, a, b).ratio(): Ratcliff/Obershelp.        *)

\* length of the common run of a from p and b from q, inside a[..ahi], b[..bhi]
RECURSIVE RunLen(_, _, _, _, _, _)
RunLen(a, b, p, q, ahi, bhi) ==
    IF p > ahi \/ q > bhi \/ a[p] # b[q] THEN 0
    ELSE 1 + RunLen(a, b, p + 1, q + 1, ahi, bhi)

\* find_longest_match: the longest block, earliest in a, then earliest in b
LongestMatch(a, b, alo, ahi, blo, bhi) ==
    LET Cand == { << p, q >> \in (alo..ahi) \X (blo..bhi) : TRUE }
        K(c) == RunLen(a, b, c[1], c[2], ahi, bhi)
        best == CHOOSE c \in Cand :
                    \A d \in Cand :
                        \/ K(c) > K(d)
                        \/ /\ K(c) = K(d)
                           /\ \/ c[1] < d[1]
                              \/ c[1] = d[1] /\ c[2] <= d[2]
    IN  IF Cand = {} THEN << alo, blo, 0 >> ELSE << best[1], best[2], K(best) >>

\* number of matching characters: the block, then the pieces left and right of it
RECURSIVE MatchingChars(_, _, _, _, _, _)
MatchingChars(a, b, alo, ahi, blo, bhi) ==
    LET m == LongestMatch(a, b, alo, ahi, blo, bhi)
    IN  IF m[3] = 0 THEN 0
        ELSE m[3] + MatchingChars(a, b, alo, m[1] - 1, blo, m[2] - 1)
                  + MatchingChars(a, b, m[1] + m[3], ahi, m[2] + m[3], bhi)

\* ratio() of the lower-cased labels, as the fraction << numerator, denominator >>
Similarity(s, t) ==
    LET a == LowerChars(Chars(s))
        b == LowerChars(Chars(t))
    IN  IF Len(a) + Len(b) = 0 THEN << 1, 1 >>
        ELSE << 2 * MatchingChars(a, b, 1, Len(a), 1, Len(b)), Len(a) + Len(b) >>

\* fractions
FracGT(f, g) == f[1] * g[2] > g[1] * f[2]
FracGE(f, g) == f[1] * g[2] >= g[1] * f[2]

DefaultThreshold == << 8, 10 >>

\* sorted(matches, key = similarity, reverse = True): stable, most similar first
RECURSIVE InsertBySimilarity(_, _, _)
InsertBySimilarity(sorted, source, x) ==
    IF sorted = << >> THEN << x >>
    ELSE IF FracGT(Similarity(source, x), Similarity(source, Head(sorted)))
         THEN << x >> \o sorted
         ELSE << Head(sorted) >> \o InsertBySimilarity(Tail(sorted), source, x)

RECURSIVE SortBySimilarity(_, _)
SortBySimilarity(matches, source) ==
    IF matches = << >> THEN << >>
    ELSE InsertBySimilarity(
             SortBySimilarity(SubSeq(matches, 1, Len(matches) - 1), source),
             source, matches[Len(matches)])

\* suggest_column_mapping(source: str, target_columns, threshold)
suggest_column_mapping_str(source, target_columns, threshold) ==
    SortBySimilarity(
        SelectSeq(target_columns, LAMBDA t : FracGE(Similarity(source, t), threshold)),
        source)

\* an inner loop in which a later target of equal similarity replaces the best
RECURSIVE BestMatchLast(_, _, _, _, _, _)
BestMatchLast(src_col, target_columns, threshold, k, best_match, best_score) ==
    IF k > Len(target_columns) THEN best_match
    ELSE LET similarity == Similarity(src_col, target_columns[k])
         IN  IF FracGE(similarity, best_score) /\ FracGT(similarity, << 0, 1 >>)
                /\ FracGE(similarity, threshold)
             THEN BestMatchLast(src_col, target_columns, threshold, k + 1,
                                target_columns[k], similarity)
             ELSE BestMatchLast(src_col, target_columns, threshold, k + 1,
                                best_match, best_score)

\* inner loop of suggest_column_mapping(source: list, ...): the best target for
\* src_col among target_columns[k..], given the best found so far
RECURSIVE BestMatch(_, _, _, _, _, _)
BestMatch(src_col, target_columns, threshold, k, best_match, best_score) ==
    IF k > Len(target_columns) THEN best_match
    ELSE LET similarity == Similarity(src_col, target_columns[k])
         IN  IF FracGT(similarity, best_score) /\ FracGE(similarity, threshold)
             THEN BestMatch(src_col, target_columns, threshold, k + 1,
                            target_columns[k], similarity)
             ELSE BestMatch(src_col, target_columns, threshold, k + 1,
                            best_match, best_score)

\* suggest_column_mapping(source: list, target_columns, threshold): the dict, as
\* the sequence of its items << src_col, best_match >> in insertion order
suggest_column_mapping(source, target_columns, threshold) ==
    LET best(src) == BestMatch(src, target_columns, threshold, 1, None, << 0, 1 >>)
        items == [ k \in 1..Len(source) |-> << source[k], best(source[k]) >> ]
    IN  SelectSeq(items, LAMBDA it : it[2] # None /\ it[2] # "")

-----------------------------------------------------------------------------
(* Tables and the pandas operations process_files uses                     *)

Table(cols, rows) == [ cols |-> cols, rows |-> rows ]

RowCount(t) == Len(t.rows)

ColumnSet(t) == SeqToSet(t.cols)

HasColumn(t, c) == Contains(t.cols, c)

\* df[c]: the cells of column c, top to bottom
Column(t, c) == [ r \in 1..Len(t.rows) |-> t.rows[r][IndexOf(t.cols, c)] ]

\* df.empty
IsEmpty(t) == Len(t.cols) = 0 \/ Len(t.rows) = 0

\* df.columns = [col.lower() for col in df.columns]
LowerColumns(t) == Table([ j \in 1..Len(t.cols) |-> Lower(t.cols[j]) ], t.rows)

\* df.rename(columns = rename_dict); rename_dict is a function on the labels it renames
Rename(t, rename_dict) ==
    Table([ j \in 1..Len(t.cols) |->
              IF t.cols[j] \in DOMAIN rename_dict THEN rename_dict[t.cols[j]]
              ELSE t.cols[j] ],
          t.rows)

\* the labels of s, each once, in first-seen order
RECURSIVE FirstSeen(_, _)
FirstSeen(s, seen) ==
    IF s = << >> THEN seen
    ELSE FirstSeen(Tail(s), IF Contains(seen, Head(s)) THEN seen ELSE Append(seen, Head(s)))

\* a concat that keeps only the columns of the first frame
ConcatFirstColumns(frames) ==
    Table(frames[1].cols,
          Flatten([ k \in 1..Len(frames) |->
                      [ r \in 1..Len(frames[k].rows) |->
                          [ j \in 1..Len(frames[1].cols) |->
                              IF HasColumn(frames[k], frames[1].cols[j])
                              THEN frames[k].rows[r][IndexOf(frames[k].cols, frames[1].cols[j])]
                              ELSE NA ] ] ]))

\* a concat that keeps only the columns every frame has (join = "inner")
ConcatInner(frames) ==
    LET cols == SelectSeq(frames[1].cols,
                          LAMBDA c : \A k \in 1..Len(frames) : HasColumn(frames[k], c))
    IN  Table(cols,
              Flatten([ k \in 1..Len(frames) |->
                          [ r \in 1..Len(frames[k].rows) |->
                              [ j \in 1..Len(cols) |->
                                  frames[k].rows[r][IndexOf(frames[k].cols, cols[j])] ] ] ]))

\* whether pd.concat(frames) raises: a frame with a repeated label cannot be
\* reindexed to the combined columns (InvalidIndexError); frames whose
\* column lists are all equal are not reindexed
ConcatRaises(frames) ==
    /\ \E k \in 1..Len(frames) : ~IsUniqueSeq(frames[k].cols)
    /\ \E k \in 1..Len(frames) : frames[k].cols # frames[1].cols

\* pd.concat(frames, ignore_index = True)
Concat(frames) ==
    LET cols == IF \A k \in 1..Len(frames) : frames[k].cols = frames[1].cols
                THEN frames[1].cols
                ELSE FirstSeen(Flatten([ k \in 1..Len(frames) |-> frames[k].cols ]), << >>)
        Widen(t, row) == [ j \in 1..Len(cols) |->
                             IF HasColumn(t, cols[j]) THEN row[IndexOf(t.cols, cols[j])]
                             ELSE NA ]
    IN  Table(cols,
              Flatten([ k \in 1..Len(frames) |->
                          [ r \in 1..Len(frames[k].rows) |->
                              Widen(frames[k], frames[k].rows[r]) ] ]))

\* df.fillna(value)
FillValue(t, value) ==
    Table(t.cols, [ r \in 1..Len(t.rows) |->
                      [ j \in 1..Len(t.cols) |->
                          IF IsNA(t.rows[r][j]) THEN value ELSE t.rows[r][j] ] ])

\* df.fillna(method = 'ffill'): the nearest non-missing cell above, if any
RECURSIVE LastValid(_, _, _)
LastValid(t, r, j) ==
    IF r < 1 THEN NA
    ELSE IF ~IsNA(t.rows[r][j]) THEN t.rows[r][j]
    ELSE LastValid(t, r - 1, j)

ForwardFill(t) ==
    Table(t.cols, [ r \in 1..Len(t.rows) |->
                      [ j \in 1..Len(t.cols) |-> LastValid(t, r, j) ] ])

\* df.fillna(method = 'bfill'): the nearest non-missing cell below, if any
RECURSIVE NextValid(_, _, _)
NextValid(t, r, j) ==
    IF r > Len(t.rows) THEN NA
    ELSE IF ~IsNA(t.rows[r][j]) THEN t.rows[r][j]
    ELSE NextValid(t, r + 1, j)

BackwardFill(t) ==
    Table(t.cols, [ r \in 1..Len(t.rows) |->
                      [ j \in 1..Len(t.cols) |-> NextValid(t, r, j) ] ])

\* series.dropna()
DropNA(series) == SelectSeq(series, LAMBDA v : ~IsNA(v))

\* series.nunique(): distinct non-missing values
NUnique(series) == Cardinality(SeqToSet(DropNA(series)))

\* series.mode()[0] if not series.mode().empty else nan: the smallest of the
\* most frequent non-missing values
Mode0(series) ==
    LET valid == DropNA(series)
        Count(v) == Cardinality({ k \in 1..Len(valid) : valid[k] = v })
        modes == { v \in SeqToSet(valid) : \A w \in SeqToSet(valid) : Count(v) >= Count(w) }
    IN  IF modes = {} THEN NA
        ELSE CHOOSE v \in modes : \A w \in modes : v <= w

\* for col in df.columns: df[col] = df[col].fillna(mode)
FillMode(t) ==
    Table(t.cols, [ r \in 1..Len(t.rows) |->
                      [ j \in 1..Len(t.cols) |->
                          IF IsNA(t.rows[r][j]) THEN Mode0(Column(t, t.cols[j]))
                          ELSE t.rows[r][j] ] ])

\* df.drop_duplicates(subset): the first row of each group of rows equal on
\* the subset columns is kept (missing cells compare equal to each other)
DropDuplicates(t, subset) ==
    LET Key(r) == [ k \in 1..Len(subset) |-> t.rows[r][IndexOf(t.cols, subset[k])] ]
        keep == SelectSeq([ r \in 1..Len(t.rows) |-> r ],
                          LAMBDA r : \A q \in 1..(r - 1) : Key(q) # Key(r))
    IN  Table(t.cols, [ k \in 1..Len(keep) |-> t.rows[keep[k]] ])

\* order of join keys in an outer merge: ascending, missing last
KeyBefore(a, b) == ~IsNA(a) /\ (IsNA(b) \/ a < b)

RECURSIVE InsertByKey(_, _, _)
InsertByKey(sorted, row, kidx) ==
    IF sorted = << >> THEN << row >>
    ELSE IF KeyBefore(row[kidx], Head(sorted)[kidx])
         THEN << row >> \o sorted
         ELSE << Head(sorted) >> \o InsertByKey(Tail(sorted), row, kidx)

RECURSIVE SortByKey(_, _)
SortByKey(rows, kidx) ==
    IF rows = << >> THEN << >>
    ELSE InsertByKey(SortByKey(SubSeq(rows, 1, Len(rows) - 1), kidx),
                     rows[Len(rows)], kidx)

\* join keys as SQL compares them: a missing key matches nothing
KeysMatchNotMissing(a, b) == a = b /\ ~IsNA(a)

\* join keys as pd.merge compares them: missing keys match each other
KeysMatch(a, b) == a = b

\* whether pd.merge(left, right, on = key, ...) raises: a frame lacks the
\* key (KeyError) or holds it twice (ValueError), or a suffixed label collides
\* with another (MergeError)
MergeRaises(left, right, key, suffix) ==
    \/ ~HasColumn(left, key)
    \/ ~HasColumn(right, key)
    \/ Len(SelectSeq(left.cols, LAMBDA c : c = key)) > 1
    \/ Len(SelectSeq(right.cols, LAMBDA c : c = key)) > 1
    \/ \E c \in ColumnSet(right) \ {key} :
          /\ HasColumn(left, c)
          /\ \/ HasColumn(left, Suffixed(c, suffix))
             \/ HasColumn(right, Suffixed(c, suffix))

\* the label a column of the right frame gets in the merge result
RightLabel(left, c, suffix) ==
    IF HasColumn(left, c) THEN Suffixed(c, suffix) ELSE c

\* pd.merge(left, right, on = key, how = how, suffixes = (None, f"_{suffix}"))
Merge(left, right, key, how, suffix) ==
    LET lk == IndexOf(left.cols, key)
        rk == IndexOf(right.cols, key)
        rother == SelectSeq([ j \in 1..Len(right.cols) |-> j ], LAMBDA j : j # rk)
        cols == left.cols \o
                [ k \in 1..Len(rother) |-> RightLabel(left, right.cols[rother[k]], suffix) ]
        RightPart(rrow) == [ k \in 1..Len(rother) |-> rrow[rother[k]] ]
        NoRight == [ k \in 1..Len(rother) |-> NA ]
        Matches(lrow) == SelectSeq(right.rows, LAMBDA rrow : KeysMatch(lrow[lk], rrow[rk]))
        LeftRows(lrow) ==
            LET ms == Matches(lrow)
            IN  IF ms = << >>
                THEN IF how = "inner" THEN << >> ELSE << lrow \o NoRight >>
                ELSE [ q \in 1..Len(ms) |-> lrow \o RightPart(ms[q]) ]
        matched == Flatten([ p \in 1..Len(left.rows) |-> LeftRows(left.rows[p]) ])
        unmatched == SelectSeq(right.rows,
                         LAMBDA rrow : \A p \in 1..Len(left.rows) :
                                           ~KeysMatch(left.rows[p][lk], rrow[rk]))
        rightonly == [ q \in 1..Len(unmatched) |->
                         [ j \in 1..Len(left.cols) |->
                             IF j = lk THEN unmatched[q][rk] ELSE NA ]
                         \o RightPart(unmatched[q]) ]
    IN  Table(cols,
              IF how = "outer" THEN SortByKey(matched \o rightonly, lk)
              ELSE matched)

-----------------------------------------------------------------------------
(* Uploaded files and FileMerger.load_data                                 *)

\* self.max_file_size_mb * 1024 * 1024, with the default of 100 MB
MaxFileSizeBytes == 100 * 1024 * 1024

SupportedFormats == { "csv", "xlsx", "xls", "json" }

NoTable == Table(<< >>, << >>)

\* an uploaded file: its declared size, the extension of its name, and what
\* read_file makes of its bytes (raises, or the table read)
UploadedFile(size, ext, readable, table) ==
    [ size |-> size, ext |-> ext, readable |-> readable, table |-> table ]

Message(kind, file, detail) == [ kind |-> kind, file |-> file, detail |-> detail ]

\* str.lower() of a file suffix
LowerExt(ext) ==
    CASE ext = "CSV"  -> "csv"
      [] ext = "Json" -> "json"
      [] OTHER        -> ext

\* Path(uploaded_file.name).suffix.lower().lstrip('.')
FileExtension(file) == LowerExt(file.ext)

\* load_data(uploaded_file) of the file at position f: [ok, df, error]
load_data(file, f) ==
    IF file.size > MaxFileSizeBytes
    THEN [ ok |-> FALSE, df |-> NoTable, error |-> Message("too_large", f, << >>) ]
    ELSE IF FileExtension(file) \notin SupportedFormats
    THEN [ ok |-> FALSE, df |-> NoTable, error |-> Message("unsupported_format", f, << >>) ]
    ELSE IF ~file.readable
    THEN [ ok |-> FALSE, df |-> NoTable, error |-> Message("load_error", f, << >>) ]
    ELSE IF IsEmpty(file.table)
    THEN [ ok |-> FALSE, df |-> NoTable, error |-> Message("empty", f, << >>) ]
    ELSE [ ok |-> TRUE, df |-> file.table, error |-> Message("none", f, << >>) ]

-----------------------------------------------------------------------------
(* Options of process_files                                                *)

Append_ == "Append (stack vertically)"
Join_ == "Join on key column (merge horizontally)"
Smart_ == "Smart merge (auto-detect)"

MergeMethods == { Append_, Join_, Smart_ }

\* merge_method.startswith("Join")
StartsWithJoin(merge_method) == merge_method = Join_

\* not options["join_key"]
Falsy(join_key) == join_key = None \/ join_key = ""

\* options["join_key"].lower() if options["join_key"]
LowerKey(join_key) == IF Falsy(join_key) THEN join_key ELSE Lower(join_key)

\* options["matching_threshold"] / 100
Threshold(opts) == << opts.matching_threshold, 100 >>

-----------------------------------------------------------------------------
(* Results                                                                 *)

NoDf == [ has |-> FALSE, df |-> NoTable ]
SomeDf(t) == [ has |-> TRUE, df |-> t ]

\* before process_files returns
NoReturn == [ how |-> "running", df |-> NoDf, has_errors |-> FALSE, errors |-> << >> ]
\* return None, errors
ReturnErrors(errors) ==
    [ how |-> "returned", df |-> NoDf, has_errors |-> TRUE, errors |-> errors ]
\* return merged_df, None
ReturnTable(t) ==
    [ how |-> "returned", df |-> SomeDf(t), has_errors |-> FALSE, errors |-> << >> ]
\* an exception leaves process_files
Raised == [ how |-> "raised", df |-> NoDf, has_errors |-> FALSE, errors |-> << >> ]

\* datetime.now() at the time of the call, and the time of an earlier merge
CallTime == 2
PriorTime == 1

Diagnostic(sev, kind, file, detail) ==
    [ sev |-> sev, kind |-> kind, file |-> file, detail |-> detail ]

-----------------------------------------------------------------------------
(* FileMerger.process_files, step by step                                  *)

\* a start that does not look at the join key
StartWithoutKeyCheck ==
    /\ pc = "start"
    /\ IF Len(uploaded_files) = 0
       THEN /\ ret' = ReturnErrors(<< Message("no_files", 0, << >>) >>)
            /\ pc' = "done"
       ELSE /\ ret' = ret
            /\ pc' = "load"
    /\ i' = 1
    /\ UNCHANGED << util, original_merged_df >>
    /\ UNCHANGED << uploaded_files, options, dfs, file_names, error_messages,
                    attempted, diagnostics, merged_df, last_merge_time >>

\* the two early returns, before anything is loaded
Start ==
    /\ pc = "start"
    /\ IF Len(uploaded_files) = 0
       THEN /\ ret' = ReturnErrors(<< Message("no_files", 0, << >>) >>)
            /\ pc' = "done"
       ELSE IF StartsWithJoin(options.merge_method) /\ Falsy(options.join_key)
       THEN /\ ret' = ReturnErrors(<< Message("no_join_key", 0, << >>) >>)
            /\ pc' = "done"
       ELSE /\ ret' = ret
            /\ pc' = "load"
    /\ i' = 1
    /\ UNCHANGED << util, original_merged_df >>
    /\ UNCHANGED << uploaded_files, options, dfs, file_names, error_messages,
                    attempted, diagnostics, merged_df, last_merge_time >>

\* a loading loop that stops at the first file that fails to load
AfterLoadStopOnError(ok) ==
    IF ~ok \/ i = Len(uploaded_files) THEN "check" ELSE "load"

\* where the loading loop goes after a file: to the next file, whether this
\* one loaded (ok) or not (continue), and out of the loop after the last
AfterLoad(ok) ==
    IF i = Len(uploaded_files) THEN "check" ELSE "load"

\* one pass of the loading loop: load_data, lower-casing, the join-key check
LoadFile ==
    /\ pc = "load"
    /\ i <= Len(uploaded_files)
    /\ LET loaded == load_data(uploaded_files[i], i)
           df == IF options.ignore_case THEN LowerColumns(loaded.df) ELSE loaded.df
           join_key == IF options.ignore_case THEN LowerKey(options.join_key)
                       ELSE options.join_key
           similar_cols == suggest_column_mapping_str(join_key, df.cols, DefaultThreshold)
           missing == << Message("missing_key", i, << join_key >>) >>
           suggestions ==
               IF similar_cols = << >> THEN << >>
               ELSE << Message("similar_columns", i,
                               SubSeq(similar_cols, 1,
                                      IF Len(similar_cols) < 3 THEN Len(similar_cols) ELSE 3)) >>
       IN  IF ~loaded.ok
           THEN /\ error_messages' = Append(error_messages, loaded.error)
                /\ UNCHANGED << options, dfs, file_names >>
           ELSE /\ options' = [ options EXCEPT !.join_key = join_key ]
                /\ IF StartsWithJoin(options.merge_method) /\ ~HasColumn(df, join_key)
                   THEN /\ error_messages' = error_messages \o missing \o suggestions
                        /\ UNCHANGED << dfs, file_names >>
                   ELSE /\ dfs' = Append(dfs, df)
                        /\ file_names' = Append(file_names, i)
                        /\ UNCHANGED error_messages
    /\ attempted' = Append(attempted, i)
    /\ i' = i + 1
    /\ pc' = AfterLoad(load_data(uploaded_files[i], i).ok)
    /\ UNCHANGED << util, original_merged_df >>
    /\ UNCHANGED << uploaded_files, diagnostics, ret, merged_df, last_merge_time >>

\* a check that goes on with the tables that did load
CheckErrorsPartial ==
    /\ pc = "check"
    /\ IF Len(dfs) > 0
       THEN /\ ret' = ret
            /\ pc' = "clean"
       ELSE /\ ret' = ReturnErrors(error_messages)
            /\ pc' = "done"
    /\ i' = 1
    /\ UNCHANGED << util, original_merged_df >>
    /\ UNCHANGED << uploaded_files, options, dfs, file_names, error_messages,
                    attempted, diagnostics, merged_df, last_merge_time >>

\* after the loop: any error message ends the call
CheckErrors ==
    /\ pc = "check"
    /\ IF error_messages # << >>
       THEN /\ ret' = ReturnErrors(error_messages)
            /\ pc' = "done"
       ELSE IF Len(dfs) > 0
       THEN /\ ret' = ret
            /\ pc' = "clean"
       ELSE /\ ret' = ReturnErrors(<< Message("no_valid", 0, << >>) >>)
            /\ pc' = "done"
    /\ i' = 1
    /\ UNCHANGED << util, original_merged_df >>
    /\ UNCHANGED << uploaded_files, options, dfs, file_names, error_messages,
                    attempted, diagnostics, merged_df, last_merge_time >>

\* the fill stage of the cleaning loop, for the methods Zero, Mode, Forward
\* fill and Backward fill (Mean, Median and Custom value are not modelled:
\* no option record of the model selects them)
Fill(df, opts) ==
    IF opts.fill_missing /\ opts.fill_method # "None (keep NaN)"
    THEN CASE opts.fill_method = "Zero"          -> FillValue(df, 0)
           [] opts.fill_method = "Mode"          -> FillMode(df)
           [] opts.fill_method = "Forward fill"  -> ForwardFill(df)
           [] opts.fill_method = "Backward fill" -> BackwardFill(df)
    ELSE df

\* the duplicate stage of the cleaning loop
HandleDuplicates(df, opts) ==
    IF opts.handle_duplicates
    THEN IF StartsWithJoin(opts.merge_method) /\ HasColumn(df, opts.join_key)
         THEN DropDuplicates(df, << opts.join_key >>)
         ELSE DropDuplicates(df, df.cols)
    ELSE df

\* one pass of the cleaning loop
CleanDf ==
    /\ pc = "clean"
    /\ i <= Len(dfs)
    /\ LET filled == Fill(dfs[i], options)
           df == HandleDuplicates(filled, options)
       IN  /\ dfs' = [ dfs EXCEPT ![i] = df ]
           /\ diagnostics' =
                  IF options.handle_duplicates /\ RowCount(filled) - RowCount(df) > 0
                  THEN Append(diagnostics,
                              Diagnostic("info", "removed_duplicates", file_names[i], << >>))
                  ELSE diagnostics
    /\ i' = i + 1
    /\ pc' = IF i = Len(dfs) THEN "merge" ELSE "clean"
    /\ UNCHANGED << util, original_merged_df >>
    /\ UNCHANGED << uploaded_files, options, file_names, error_messages, attempted,
                    ret, merged_df, last_merge_time >>

\* rename_dict = {col2: col1 for col1, col2 in mapping.items() if col1 != col2}:
\* for a label mapped to twice, the later item wins
RenameDict(mapping) ==
    LET items == SelectSeq(mapping, LAMBDA it : it[1] # it[2])
        Last(c) == CHOOSE k \in 1..Len(items) :
                       items[k][2] = c /\ \A m \in (k + 1)..Len(items) : items[m][2] # c
    IN  [ c \in { items[k][2] : k \in 1..Len(items) } |-> items[Last(c)][1] ]

\* the column-matching loop of the Join branch: every table after the first
\* is matched against merged_df, which is dfs[0] throughout the loop
MatchColumns(frames, opts) ==
    [ k \in 1..Len(frames) |->
        IF k = 1 THEN frames[k]
        ELSE Rename(frames[k],
                    RenameDict(suggest_column_mapping(frames[1].cols, frames[k].cols,
                                                      Threshold(opts)))) ]

\* the entries of column_mappings, shown in the "Column Mappings Applied" expander
ColumnMappings(frames, opts, names) ==
    LET dict(k) == RenameDict(suggest_column_mapping(frames[1].cols, frames[k].cols,
                                                     Threshold(opts)))
        renamed(k) == SelectSeq(frames[k].cols, LAMBDA c : c \in DOMAIN dict(k))
        entry(k) == Diagnostic("info", "column_mapping", names[k],
                               Flatten([ j \in 1..Len(renamed(k)) |->
                                           << renamed(k)[j], dict(k)[renamed(k)[j]] >> ]))
    IN  SelectSeq([ k \in 1..Len(frames) |-> IF k = 1 THEN Diagnostic("info", "none", 0, << >>)
                                                 ELSE entry(k) ],
                  LAMBDA d : d.kind = "column_mapping" /\ d.detail # << >>)

\* a suffix that is the 1-based position of the table
SuffixOfTableIndex(k) == k

\* the suffix given to the table at position k of dfs (1-based):
\* for i, df in enumerate(dfs[1:], 1): suffixes = (None, f"_{i}")
SuffixOf(k) == k - 1

\* the merge loop: tables k.. of frames merged one by one onto acc;
\* [raised, df], raised when a pd.merge raises
RECURSIVE MergeAll(_, _, _, _, _)
MergeAll(acc, frames, k, key, how) ==
    IF k > Len(frames) THEN [ raised |-> FALSE, df |-> acc ]
    ELSE IF MergeRaises(acc, frames[k], key, SuffixOf(k))
    THEN [ raised |-> TRUE, df |-> acc ]
    ELSE MergeAll(Merge(acc, frames[k], key, how, SuffixOf(k)), frames, k + 1, key, how)

\* common_cols = set.intersection(*[set(df.columns) for df in dfs])
CommonCols(frames) ==
    { c \in ColumnSet(frames[1]) : \A k \in 1..Len(frames) : HasColumn(frames[k], c) }

\* potential keys chosen without the uniqueness check
PotentialKeysAnyCommon(frames) ==
    { c \in ColumnSet(frames[1]) : \A k \in 1..Len(frames) : HasColumn(frames[k], c) }

\* potential_keys: the common columns without repeated values in any table
PotentialKeys(frames) ==
    { c \in CommonCols(frames) :
        \A k \in 1..Len(frames) :
            NUnique(Column(frames[k], c)) = Len(DropNA(Column(frames[k], c))) }

\* the end of a successful call: the result is stored in the session and returned
Finish(result, diags) ==
    /\ merged_df' = SomeDf(result)
    /\ last_merge_time' = CallTime
    /\ ret' = ReturnTable(result)
    /\ diagnostics' = diagnostics \o diags
    /\ pc' = "done"
    /\ UNCHANGED dfs

\* an exception raised by the merge leaves the session as it was
Raise(frames, diags) ==
    /\ ret' = Raised
    /\ diagnostics' = diagnostics \o diags
    /\ dfs' = frames
    /\ pc' = "done"
    /\ UNCHANGED << merged_df, last_merge_time >>

\* the merge stage
MergeFrames ==
    /\ pc = "merge"
    /\ CASE options.merge_method = Append_ ->
              IF ConcatRaises(dfs)
              THEN Raise(dfs, << >>)
              ELSE Finish(Concat(dfs), << Diagnostic("success", "append", 0, << >>) >>)
         [] options.merge_method = Join_ ->
              LET frames == IF options.matching_columns THEN MatchColumns(dfs, options)
                            ELSE dfs
                  diags == IF options.matching_columns
                           THEN << Diagnostic("info", "matching", 0, << >>) >>
                                \o ColumnMappings(dfs, options, file_names)
                           ELSE << >>
                  merged == MergeAll(frames[1], frames, 2, options.join_key,
                                     options.join_type)
              IN  IF merged.raised
                  THEN Raise(frames, diags)
                  ELSE /\ merged_df' = SomeDf(merged.df)
                       /\ last_merge_time' = CallTime
                       /\ ret' = ReturnTable(merged.df)
                       /\ diagnostics' = diagnostics \o diags \o
                                         << Diagnostic("success", "join", 0, << >>) >>
                       /\ dfs' = frames
                       /\ pc' = "done"
         [] options.merge_method = Smart_ ->
              IF Len(dfs) = 1
              THEN Finish(dfs[1], << Diagnostic("info", "analyzing", 0, << >>),
                                    Diagnostic("success", "single_file", 0, << >>) >>)
              ELSE IF CommonCols(dfs) = {}
              THEN Finish(Concat(dfs),
                          << Diagnostic("info", "analyzing", 0, << >>),
                             Diagnostic("warning", "no_common_columns", 0, << >>) >>)
              ELSE IF PotentialKeys(dfs) # {}
              THEN \E key_col \in PotentialKeys(dfs) :
                      LET merged == MergeAll(dfs[1], dfs, 2, key_col, "outer")
                          selected == << Diagnostic("info", "analyzing", 0, << >>),
                                         Diagnostic("info", "selected_key", 0, << key_col >>) >>
                      IN  IF merged.raised
                          THEN Raise(dfs, selected)
                          ELSE Finish(merged.df,
                                      selected \o
                                      << Diagnostic("success", "smart_join", 0, << key_col >>) >>)
              ELSE Finish(Concat(dfs),
                          << Diagnostic("info", "analyzing", 0, << >>),
                             Diagnostic("warning", "no_key_columns", 0, << >>) >>)
    /\ UNCHANGED << util, original_merged_df >>
    /\ UNCHANGED << uploaded_files, options, i, file_names, error_messages, attempted >>

-----------------------------------------------------------------------------
(* Inputs                                                                  *)

\* the rows under a column list, the cell of a column drawn from values[label]
RECURSIVE RowsOver(_, _)
RowsOver(cols, values) ==
    IF cols = << >> THEN { << >> }
    ELSE { << v >> \o rest : v \in values[Head(cols)], rest \in RowsOver(Tail(cols), values) }

\* the tables of n such rows
TablesOver(cols, n, values) ==
    { Table(cols, rows) : rows \in [ 1..n -> RowsOver(cols, values) ] }

\* a file that loads as the given table
GoodFile(t) == UploadedFile(1024, "csv", TRUE, t)

\* one file for each way load_data fails: too large, unsupported extension,
\* unreadable, empty
FailingFiles ==
    { UploadedFile(MaxFileSizeBytes + 1, "csv", TRUE, NoTable),
      UploadedFile(1024, "txt", TRUE, NoTable),
      UploadedFile(1024, "csv", FALSE, NoTable),
      UploadedFile(1024, "json", TRUE, NoTable) }

OptionsRecord(method, key, how, matching, icase, dups, fill) ==
    [ merge_method |-> method, join_key |-> key, join_type |-> how,
      matching_columns |-> matching, ignore_case |-> icase,
      handle_duplicates |-> dups, fill_missing |-> fill # "None (keep NaN)",
      fill_method |-> fill, matching_threshold |-> 80 ]

\* the table of an earlier merge, held by the session when the call starts
PriorTable == Table(<< "x" >>, << << 2 >> >>)

\* no utility function is being called
NoCall == [ fn |-> "none" ]

NoResult == [ returned |-> FALSE ]

NoUtilityCall ==
    /\ call = NoCall
    /\ at = "idle"
    /\ events = << >>
    /\ outcome = NoResult

InitWith(filelists, optionset) ==
    /\ uploaded_files \in filelists
    /\ options \in optionset
    /\ pc = "start"
    /\ i = 1
    /\ dfs = << >>
    /\ file_names = << >>
    /\ error_messages = << >>
    /\ attempted = << >>
    /\ diagnostics = << >>
    /\ ret = NoReturn
    /\ merged_df = SomeDf(PriorTable)
    /\ last_merge_time = PriorTime
    /\ original_merged_df = SomeDf(PriorTable)
    /\ NoUtilityCall

Next == Start \/ LoadFile \/ CheckErrors \/ CleanDf \/ MergeFrames

(* Spec: labels vary in case and similarity, files may fail to load, every *)
(* cell holds the same value.                                              *)

\* column lists with labels of either case, similar labels and plain ones;
\* labels that differ only in case do not occur together in one table
LabelColLists ==
    { << "id" >>, << "ID" >>, << "idx" >>, << "x" >>,
      << "ID", "x" >>, << "id", "x" >>, << "idx", "id" >>, << "id", "idx" >> }

LabelValues == [ label \in { "id", "ID", "idx", "x" } |-> { 1 } ]

\* a table with four labels similar to "id"
WideTable == Table(<< "idx", "ids", "idy", "idz" >>, << << 1, 1, 1, 1 >> >>)

\* one-row tables under every column list, taller ones under one of them
LabelTables ==
    UNION { TablesOver(cols, 1, LabelValues) : cols \in LabelColLists }
    \cup UNION { TablesOver(<< "ID", "x" >>, n, LabelValues) : n \in 2..MaxRows }
    \cup { WideTable }

LabelFiles == { GoodFile(t) : t \in LabelTables } \cup FailingFiles

LabelFileLists == UNION { [ 1..n -> LabelFiles ] : n \in 0..MaxFiles }

LabelOptions ==
    { OptionsRecord(Join_, key, "outer", FALSE, icase, FALSE, "None (keep NaN)") :
        key \in { None, "" }, icase \in BOOLEAN }
    \cup
    { OptionsRecord(Join_, "ID", "inner", matching, icase, FALSE, "None (keep NaN)") :
        matching \in BOOLEAN, icase \in BOOLEAN }
    \cup
    { OptionsRecord(method, None, "outer", FALSE, icase, dups, "None (keep NaN)") :
        method \in { Append_, Smart_ }, icase \in BOOLEAN, dups \in BOOLEAN }

Init == InitWith(LabelFileLists, LabelOptions)

Spec == Init /\ [][Next]_vars

(* SpecData: every file loads, labels are plain, cell values vary.         *)

\* the cells of the "id" column may be missing or repeated
DataValues == [ label \in { "id", "x" } |-> IF label = "id" THEN { NA, 1, 2 } ELSE { 1, 2 } ]

DataColLists == { << "id" >>, << "id", "x" >> }

DataTables(n) == UNION { TablesOver(cols, n, DataValues) : cols \in DataColLists }

\* the lists of row counts, one per file, within the bound
RowCountLists ==
    { rc \in UNION { [ 1..n -> 1..MaxTotalRows ] : n \in 1..MaxTotalRows } :
        SumSeq(rc) <= MaxTotalRows }

\* the lists of loadable files with the given row counts
RECURSIVE FilesWithRows(_)
FilesWithRows(rc) ==
    IF rc = << >> THEN { << >> }
    ELSE { << GoodFile(t) >> \o rest : t \in DataTables(Head(rc)), rest \in FilesWithRows(Tail(rc)) }

DataOptions ==
    { OptionsRecord(Join_, "id", how, FALSE, TRUE, how = "left", "None (keep NaN)") :
        how \in { "outer", "inner", "left" } }
    \cup
    { OptionsRecord(Smart_, None, "outer", FALSE, TRUE, FALSE, "None (keep NaN)") }

InitData == \E rc \in RowCountLists : InitWith(FilesWithRows(rc), DataOptions)

SpecData == InitData /\ [][Next]_vars

(* SpecCase: one table may hold two labels that differ only in case.        *)

CaseColLists == { << "ID", "id" >>, << "id" >>, << "ID" >>, << "id", "x" >> }

CaseTables == UNION { TablesOver(cols, 1, LabelValues) : cols \in CaseColLists }

CaseFileLists == UNION { [ 1..n -> { GoodFile(t) : t \in CaseTables } ] : n \in 0..MaxFiles }

\* Append, and Join on "id" with and without fuzzy matching
CaseOptions ==
    { OptionsRecord(Append_, None, "outer", FALSE, icase, FALSE, "None (keep NaN)") :
        icase \in BOOLEAN }
    \cup
    { OptionsRecord(Join_, "id", "outer", matching, icase, FALSE, "None (keep NaN)") :
        matching \in BOOLEAN, icase \in BOOLEAN }

InitCase == InitWith(CaseFileLists, CaseOptions)

SpecCase == InitCase /\ [][Next]_vars

-----------------------------------------------------------------------------
(* Properties                                                              *)

Returned == pc = "done" /\ ret.how = "returned"

ReturnedTable == Returned /\ ret.df.has

\* the positions of the uploaded files
Files == 1..Len(uploaded_files)

\* the files load_data accepts
Loads(f) == load_data(uploaded_files[f], f).ok

\* a label as the loading loop leaves it
Normalized(label) == IF options.ignore_case THEN Lower(label) ELSE label

\* C1: Append, every file loads, duplicate removal off: the returned table
\* has as many rows as the input tables together and the union of their
\* (optionally lower-cased) column labels as its columns.
C1_AppendShape ==
    ( /\ pc = "done"
      /\ options.merge_method = Append_
      /\ ~options.handle_duplicates
      /\ Files # {}
      /\ \A f \in Files : Loads(f) )
    => /\ ReturnedTable
       /\ RowCount(ret.df.df) =
              SumSeq([ f \in Files |-> RowCount(uploaded_files[f].table) ])
       /\ ColumnSet(ret.df.df) =
              UNION { { Normalized(c) : c \in ColumnSet(uploaded_files[f].table) } : f \in Files }
       /\ IsUniqueSeq(ret.df.df.cols)

\* an Append of two tables with different columns, one label lower-cased
C1_Witness ==
    /\ ReturnedTable
    /\ options.merge_method = Append_
    /\ ~options.handle_duplicates
    /\ options.ignore_case
    /\ Len(uploaded_files) = 2
    /\ uploaded_files[1].table.cols = << "ID", "x" >>
    /\ uploaded_files[2].table.cols = << "idx", "id" >>
    /\ RowCount(uploaded_files[1].table) = 2
    /\ RowCount(ret.df.df) = 3

\* the key column values of a table
KeyValues(t, key) == SeqToSet(Column(t, key))

\* the key values a join of the tables has rows for
ExpectedKeys(frames, key, how) ==
    CASE how = "inner" ->
           { v \in KeyValues(frames[1], key) :
               \A k \in 1..Len(frames) : v \in KeyValues(frames[k], key) }
      [] how = "outer" -> UNION { KeyValues(frames[k], key) : k \in 1..Len(frames) }
      [] how = "left"  -> KeyValues(frames[1], key)

\* the labels of the result of joining the first k tables, and the label a
\* column of a later table gets beside them
RECURSIVE AccumulatedLabels(_, _, _)
JoinedLabel(frames, k, c, key) ==
    IF k > 1 /\ c \in AccumulatedLabels(frames, k - 1, key) THEN Suffixed(c, k - 1) ELSE c
AccumulatedLabels(frames, k, key) ==
    IF k = 1 THEN ColumnSet(frames[1])
    ELSE AccumulatedLabels(frames, k - 1, key) \cup
         { JoinedLabel(frames, k, c, key) : c \in ColumnSet(frames[k]) \ { key } }

Cell(t, r, c) == t.rows[r][IndexOf(t.cols, c)]

\* C2: Join of tables with unique key values: one result row per key value of
\* the intersection (inner), union (outer) or first table (left) of the key
\* sets; a row whose key a table lacks holds the missing marker in that
\* table's non-key columns.
C2_JoinRows ==
    ( /\ ReturnedTable
      /\ options.merge_method = Join_
      /\ \A k \in 1..Len(dfs) : IsUniqueSeq(Column(dfs[k], options.join_key)) )
    => LET key == options.join_key
           res == ret.df.df
       IN  /\ IsUniqueSeq(Column(res, key))
           /\ KeyValues(res, key) = ExpectedKeys(dfs, key, options.join_type)
           /\ \A r \in 1..RowCount(res), k \in 1..Len(dfs) :
                  Cell(res, r, key) \notin KeyValues(dfs[k], key)
                  => \A c \in ColumnSet(dfs[k]) \ { key } :
                         /\ HasColumn(res, JoinedLabel(dfs, k, c, key))
                         /\ IsNA(Cell(res, r, JoinedLabel(dfs, k, c, key)))

\* an outer join of keys 1, 2 with a missing key: three rows, a filled cell
C2_Witness ==
    /\ ReturnedTable
    /\ options.merge_method = Join_
    /\ options.join_type = "outer"
    /\ Len(dfs) = 2
    /\ \A k \in 1..2 : IsUniqueSeq(Column(dfs[k], "id")) /\ Len(dfs[k].cols) = 2
    /\ KeyValues(dfs[1], "id") = { 1, 2 }
    /\ KeyValues(dfs[2], "id") = { NA }
    /\ RowCount(ret.df.df) = 3
    /\ \E r \in 1..3 : Cell(ret.df.df, r, "id") = 1 /\ IsNA(Cell(ret.df.df, r, "x_1"))

\* C3: Join without a join key: no table, exactly one error message, no
\* file loaded, the session's merged table and merge time untouched.
C3_NoJoinKey ==
    ( /\ StartsWithJoin(options.merge_method)
      /\ Falsy(options.join_key) )
    => /\ pc \in { "start", "done" }
       /\ attempted = << >>
       /\ dfs = << >>
       /\ merged_df = SomeDf(PriorTable)
       /\ last_merge_time = PriorTime
       /\ pc = "done" => /\ ret.how = "returned"
                         /\ ~ret.df.has
                         /\ ret.has_errors
                         /\ Len(ret.errors) = 1

\* a Join of two loadable files with an empty key has returned
C3_Witness ==
    /\ pc = "done"
    /\ options.merge_method = Join_
    /\ options.join_key = ""
    /\ Len(uploaded_files) = 2
    /\ \A f \in Files : Loads(f)
    /\ ret.errors = << Message("no_join_key", 0, << >>) >>

\* the join key as the loading loop compares it
NormalizedKey == IF options.ignore_case THEN LowerKey(options.join_key) ELSE options.join_key

\* the labels of a loaded file as the loading loop leaves them
NormalizedColumns(f) == { Normalized(c) : c \in ColumnSet(uploaded_files[f].table) }

\* the files that load but lack the key column
LackKey == { f \in Files : Loads(f) /\ NormalizedKey \notin NormalizedColumns(f) }

\* the labels of file f similar to the key
SimilarToKey(f) ==
    { c \in NormalizedColumns(f) : FracGE(Similarity(NormalizedKey, c), << 8, 10 >>) }

SessionUntouched == merged_df = SomeDf(PriorTable) /\ last_merge_time = PriorTime

\* C4: Join, some loaded table lacks the key column: no table; the errors
\* hold a missing-key message for each such file, followed by the (at most
\* 3, most similar) similar labels if there are any; nothing is stored.
C4_MissingKey ==
    ( /\ pc = "done"
      /\ StartsWithJoin(options.merge_method)
      /\ ~Falsy(options.join_key)
      /\ LackKey # {} )
    => /\ ret.how = "returned"
       /\ ~ret.df.has
       /\ ret.has_errors
       /\ SessionUntouched
       /\ \A f \in LackKey :
            \E p \in 1..Len(ret.errors) :
               /\ ret.errors[p] = Message("missing_key", f, << NormalizedKey >>)
               /\ IF SimilarToKey(f) = {}
                  THEN p = Len(ret.errors) \/ ret.errors[p + 1].kind # "similar_columns"
                  ELSE /\ p < Len(ret.errors)
                       /\ LET m == ret.errors[p + 1]
                              n == Cardinality(SimilarToKey(f))
                          IN  /\ m.kind = "similar_columns"
                              /\ m.file = f
                              /\ Len(m.detail) = IF n < 3 THEN n ELSE 3
                              /\ IsUniqueSeq(m.detail)
                              /\ SeqToSet(m.detail) \subseteq SimilarToKey(f)
                              /\ \A c \in SimilarToKey(f) \ SeqToSet(m.detail),
                                    d \in SeqToSet(m.detail) :
                                    ~FracGT(Similarity(NormalizedKey, c),
                                            Similarity(NormalizedKey, d))

\* a Join on "id" where the first file has the key and the second has four
\* similar labels but not the key: three of them are suggested
C4_Witness ==
    /\ pc = "done"
    /\ options.merge_method = Join_
    /\ Len(uploaded_files) = 2
    /\ uploaded_files[1].table.cols = << "ID", "x" >>
    /\ uploaded_files[2].table = WideTable
    /\ ret.errors = << Message("missing_key", 2, << "id" >>),
                       Message("similar_columns", 2, << "idx", "ids", "idy" >>) >>

\* C5 (as claimed): Append or Smart, a file fails and another loads: the
\* failing one is reported and left out, the others are merged into a table.
C5_PartialMerge ==
    ( /\ pc = "done"
      /\ options.merge_method \in { Append_, Smart_ }
      /\ \E f \in Files : ~Loads(f)
      /\ \E f \in Files : Loads(f) )
    => ReturnedTable

\* C6 (as claimed): a call ends with a table and no error list, or with no
\* table and a non-empty error list.
C6_ResultShape ==
    pc = "done"
    => /\ ret.how = "returned"
       /\ \/ ret.df.has /\ ~ret.has_errors
          \/ ~ret.df.has /\ ret.has_errors /\ ret.errors # << >>

LoadFailure(m) == m.kind \in { "too_large", "unsupported_format", "load_error", "empty" }

\* C7: every uploaded file is passed to load_data, in input order, also
\* after a failure; the returned errors hold the error of every failing file,
\* in input order.
C7_LoadsAll ==
    /\ pc = "load" => attempted = [ k \in 1..(i - 1) |-> k ]
    /\ pc \in { "check", "clean", "merge" } => attempted = [ k \in Files |-> k ]
    /\ ( /\ pc = "done"
         /\ Files # {}
         /\ ~(StartsWithJoin(options.merge_method) /\ Falsy(options.join_key)) )
       => /\ attempted = [ k \in Files |-> k ]
          /\ (\E f \in Files : ~Loads(f))
             => /\ ret.has_errors
                /\ SelectSeq(ret.errors, LoadFailure) =
                       LET failing == SelectSeq([ k \in Files |-> k ], LAMBDA f : ~Loads(f))
                       IN  [ k \in 1..Len(failing) |->
                               load_data(uploaded_files[failing[k]], failing[k]).error ]

\* a call whose first file is too large and whose second is unreadable
C7_Witness ==
    /\ pc = "done"
    /\ Len(uploaded_files) = 2
    /\ attempted = << 1, 2 >>
    /\ ret.errors = << Message("too_large", 1, << >>), Message("load_error", 2, << >>) >>

\* the labels every table of frames has
SharedLabels(frames) ==
    { c \in UNION { ColumnSet(frames[k]) : k \in 1..Len(frames) } :
        \A k \in 1..Len(frames) : c \in ColumnSet(frames[k]) }

\* the number of rows of the tables before table k
RowsBefore(frames, k) == SumSeq([ j \in 1..(k - 1) |-> RowCount(frames[j]) ])

\* res stacks the tables of frames: their rows in order, under the union of
\* their labels, a cell missing where the row's table lacks the column
IsAppendOf(res, frames) ==
    /\ RowCount(res) = SumSeq([ k \in 1..Len(frames) |-> RowCount(frames[k]) ])
    /\ ColumnSet(res) = UNION { ColumnSet(frames[k]) : k \in 1..Len(frames) }
    /\ IsUniqueSeq(res.cols)
    /\ \A k \in 1..Len(frames) :
          \A r \in 1..RowCount(frames[k]), c \in ColumnSet(res) :
             Cell(res, RowsBefore(frames, k) + r, c) =
                 IF HasColumn(frames[k], c) THEN Cell(frames[k], r, c) ELSE NA

HasWarning == \E d \in 1..Len(diagnostics) : diagnostics[d].sev = "warning"

\* the loading loop left no error message: the call went on to merge dfs
ReachedMerge == pc = "done" /\ error_messages = << >> /\ Len(dfs) > 0

\* C8: Smart merge of two or more tables without a label common to all of
\* them returns the table Append returns for them (rows stacked in order,
\* columns the union) and emits a warning.
C8_SmartNoCommon ==
    ( /\ ReachedMerge
      /\ options.merge_method = Smart_
      /\ Len(dfs) >= 2
      /\ SharedLabels(dfs) = {} )
    => /\ ReturnedTable
       /\ IsAppendOf(ret.df.df, dfs)
       /\ ret.df.df = merged_df.df
       /\ HasWarning

\* a Smart merge, labels kept as they are, of a table over "id" and a
\* two-row table over "ID" and "x"
C8_Witness ==
    /\ ReturnedTable
    /\ options.merge_method = Smart_
    /\ ~options.ignore_case
    /\ ~options.handle_duplicates
    /\ Len(dfs) = 2
    /\ dfs[1] = Table(<< "id" >>, << << 1 >> >>)
    /\ dfs[2] = Table(<< "ID", "x" >>, << << 1, 1 >>, << 1, 1 >> >>)
    /\ ret.df.df = Table(<< "id", "ID", "x" >>,
                         << << 1, NA, NA >>, << NA, 1, 1 >>, << NA, 1, 1 >> >>)
    /\ HasWarning

\* the non-missing cells of a column are all different
AllDistinctNonMissing(series) ==
    \A p, q \in 1..Len(series) :
        (p # q /\ ~IsNA(series[p]) /\ ~IsNA(series[q])) => series[p] # series[q]

\* a label every table has, without repeated non-missing values in any table
Qualifies(frames, c) ==
    /\ c \in SharedLabels(frames)
    /\ \A k \in 1..Len(frames) : AllDistinctNonMissing(Column(frames[k], c))

\* the key columns Smart merge reports having joined on
SmartJoinKeys ==
    { diagnostics[d].detail[1] :
        d \in { e \in 1..Len(diagnostics) : diagnostics[e].kind = "smart_join" } }

\* C9: Smart merge of two or more tables with a common label joins (outer)
\* on a common column only if the column's non-missing values are all
\* different in every table; if no common column is like that, the result is
\* the Append of the tables with a warning.
C9_SmartKey ==
    ( /\ ReachedMerge
      /\ options.merge_method = Smart_
      /\ Len(dfs) >= 2
      /\ SharedLabels(dfs) # {} )
    => /\ ReturnedTable
       /\ \A key \in SmartJoinKeys :
             /\ Qualifies(dfs, key)
             /\ HasColumn(ret.df.df, key)
             /\ KeyValues(ret.df.df, key) = ExpectedKeys(dfs, key, "outer")
       /\ (\A c \in SharedLabels(dfs) : ~Qualifies(dfs, c))
          => /\ SmartJoinKeys = {}
             /\ IsAppendOf(ret.df.df, dfs)
             /\ HasWarning

\* a Smart merge of two tables over "id" and "x" that both have repeated
\* values in the first table: the tables are stacked
C9_WitnessAppend ==
    /\ ReturnedTable
    /\ options.merge_method = Smart_
    /\ ~options.handle_duplicates
    /\ Len(dfs) = 2
    /\ dfs[1].cols = << "id", "x" >>
    /\ dfs[2].cols = << "id", "x" >>
    /\ Column(dfs[1], "id") = << 1, 1 >>
    /\ Column(dfs[1], "x") = << 2, 2 >>
    /\ SmartJoinKeys = {}
    /\ RowCount(ret.df.df) = 3
    /\ HasWarning

\* a Smart merge of two tables over "id" and "x" where "x" has repeated
\* values in the first table: the join is on "id"
C9_Witness ==
    /\ ReturnedTable
    /\ options.merge_method = Smart_
    /\ Len(dfs) = 2
    /\ dfs[1].cols = << "id", "x" >>
    /\ dfs[2].cols = << "id", "x" >>
    /\ Column(dfs[1], "id") = << 1, NA >>
    /\ Column(dfs[1], "x") = << 2, 2 >>
    /\ SmartJoinKeys = { "id" }

\* the key column of a call that joined: the join key of a Join, the key
\* Smart merge selected
JoinedOn ==
    IF options.merge_method = Join_ THEN { options.join_key } ELSE SmartJoinKeys

\* how the tables were joined
JoinedHow == IF options.merge_method = Join_ THEN options.join_type ELSE "outer"

\* the accumulated result after the first k tables are merged
Accumulated(k, key) == MergeAll(dfs[1], SubSeq(dfs, 1, k), 2, key, JoinedHow).df

\* the cells of column c in the rows of t whose key is v
CellsAt(t, key, v, c) ==
    { Cell(t, r, c) : r \in { q \in 1..RowCount(t) : Cell(t, q, key) = v } }

\* column c of res holds, at every key, a value column d of t holds at that
\* key, and a missing cell at the keys t does not have
CarriedOver(res, c, t, d, key) ==
    /\ HasColumn(res, c)
    /\ \A r \in 1..RowCount(res) :
          LET v == Cell(res, r, key)
          IN  IF v \in KeyValues(t, key) THEN Cell(res, r, c) \in CellsAt(t, key, v, d)
              ELSE IsNA(Cell(res, r, c))

\* the non-key columns of table k that collide with the accumulated result
Colliding(k, key) == (ColumnSet(dfs[k]) \ { key }) \cap ColumnSet(Accumulated(k - 1, key))

\* C10 (as claimed): the colliding column of the k-th table appears as
\* <name>_k, k the 1-based position of the table.
C10_SuffixIsTableIndex ==
    ( /\ ReturnedTable
      /\ options.merge_method \in { Join_, Smart_ } )
    => \A key \in JoinedOn : \A k \in 2..Len(dfs) : \A c \in Colliding(k, key) :
          /\ CarriedOver(ret.df.df, c, Accumulated(k - 1, key), c, key)
          /\ CarriedOver(ret.df.df, Suffixed(c, k), dfs[k], c, key)

\* C10: in a Join, and in a Smart merge that joins, a non-key column of the
\* k-th table (k >= 2, 1-based) named like a column of the accumulated result
\* leaves that column its name and values and appears itself as
\* <name>_(k-1).
C10_SuffixIsMergeCount ==
    ( /\ ReturnedTable
      /\ options.merge_method \in { Join_, Smart_ } )
    => \A key \in JoinedOn : \A k \in 2..Len(dfs) : \A c \in Colliding(k, key) :
          /\ CarriedOver(ret.df.df, c, Accumulated(k - 1, key), c, key)
          /\ CarriedOver(ret.df.df, Suffixed(c, k - 1), dfs[k], c, key)

\* a Join on "id" of three tables that all have an "x": the result holds
\* x, x_1 and x_2, each with its table's value
C10_Witness ==
    /\ ReturnedTable
    /\ options.merge_method = Join_
    /\ Len(dfs) = 3
    /\ \A k \in 1..3 : dfs[k] = Table(<< "id", "x" >>, << << 1, IF k = 2 THEN 2 ELSE 1 >> >>)
    /\ ret.df.df = Table(<< "id", "x", "x_1", "x_2" >>, << << 1, 1, 2, 1 >> >>)

\* C11 (as claimed): no step of process_files changes the options it was
\* given: every option, the join key included, keeps the caller's value.
C11_OptionsNeverMutated == [][options' = options]_vars

\* an uploaded table, as read_file returns it, has no label twice
LoadedNamesUnique ==
    \A f \in Files : Loads(f) => IsUniqueSeq(uploaded_files[f].table.cols)

\* C12 (as claimed): when no uploaded table holds a label twice, neither does
\* any table of the call, after lower-casing and after fuzzy renaming, nor
\* the merged result.
C12_NamesStayUnique ==
    LoadedNamesUnique =>
        /\ \A k \in 1..Len(dfs) : IsUniqueSeq(dfs[k].cols)
        /\ ReturnedTable => IsUniqueSeq(ret.df.df.cols)

-----------------------------------------------------------------------------
(* The utility functions of data_processors.py, each called on its own.    *)

\* process_files is not running
NoMerge ==
    /\ uploaded_files = << >>
    /\ options = OptionsRecord(Append_, None, "outer", FALSE, TRUE, FALSE, "None (keep NaN)")
    /\ pc = "idle"
    /\ i = 1
    /\ dfs = << >>
    /\ file_names = << >>
    /\ error_messages = << >>
    /\ attempted = << >>
    /\ diagnostics = << >>
    /\ ret = NoReturn
    /\ merged_df = NoDf
    /\ last_merge_time = PriorTime
    /\ original_merged_df = NoDf

\* return value
Returns(value) == [ returned |-> TRUE, value |-> value ]

\* the cells of row r under the labels of subset
RowKey(t, r, subset) == [ k \in 1..Len(subset) |-> t.rows[r][IndexOf(t.cols, subset[k])] ]

\* a duplicated() that marks every row but the last of each group (keep = "last")
DuplicatedKeepLast(t, subset) ==
    [ r \in 1..Len(t.rows) |->
        \E q \in (r + 1)..Len(t.rows) : RowKey(t, q, subset) = RowKey(t, r, subset) ]

\* df.duplicated(subset = subset, keep = "first"): the boolean series
Duplicated(t, subset) ==
    [ r \in 1..Len(t.rows) |->
        \E q \in 1..(r - 1) : RowKey(t, q, subset) = RowKey(t, r, subset) ]

\* the report of detect_duplicates for the boolean series duplicated; the index
\* of a table is the default one, 0 for the first row
DuplicateReport(df, duplicated) ==
    LET positions == SelectSeq([ r \in 1..Len(df.rows) |-> r ], LAMBDA r : duplicated[r])
        duplicate_indices == [ k \in 1..Len(positions) |-> positions[k] - 1 ]
    IN  [ duplicate_count   |-> Len(duplicate_indices),
          duplicate_rows    |-> Table(df.cols,
                                      [ k \in 1..Len(duplicate_indices) |->
                                          df.rows[duplicate_indices[k] + 1] ]),
          duplicate_indices |-> duplicate_indices ]

\* subset = None, told apart from every list of labels
NoSubset == << None >>

detect_duplicates(df, subset) ==
    IF subset = NoSubset
    THEN DuplicateReport(df, Duplicated(df, df.cols))
    ELSE LET valid_cols == SelectSeq(subset, LAMBDA col : HasColumn(df, col))
         IN  IF valid_cols = << >>
             THEN [ duplicate_count   |-> 0,
                    duplicate_rows    |-> Table(<< >>, << >>),
                    duplicate_indices |-> << >> ]
             ELSE DuplicateReport(df, Duplicated(df, valid_cols))

DetectDuplicates ==
    /\ call.fn = "detect_duplicates"
    /\ at = "called"
    /\ outcome' = Returns(detect_duplicates(call.df, call.subset))
    /\ at' = "returned"
    /\ UNCHANGED << call, events >>
    /\ UNCHANGED merger

(* SpecDuplicates: detect_duplicates and clean_dataframe on small tables.  *)

MaxDupRows == 3

\* the table of the tests: ids 1, 2, 3, 3, 4
df_with_dupes ==
    Table(<< "id", "x" >>,
          << << 1, 100 >>, << 2, 200 >>, << 3, 300 >>, << 3, 300 >>, << 4, 400 >> >>)

DupTables ==
    UNION { TablesOver(<< "id", "x" >>, n, DataValues) : n \in 0..MaxDupRows }
    \cup { df_with_dupes }

\* no subset, subsets of the columns, and subsets naming a column the table lacks
DupSubsets ==
    { NoSubset, << >>, << "id" >>, << "x" >>, << "id", "x" >>, << "idx" >>, << "id", "idx" >> }

DetectCalls ==
    { [ fn |-> "detect_duplicates", df |-> df, subset |-> subset ] :
        df \in DupTables, subset \in DupSubsets }

CleanFill(df, opts) ==
    IF opts.fill_method # None /\ opts.fill_method # "None (keep NaN)"
    THEN CASE opts.fill_method = "Zero"          -> FillValue(df, 0)
           [] opts.fill_method = "Mode"          -> FillMode(df)
           [] opts.fill_method = "Forward fill"  -> ForwardFill(df)
           [] opts.fill_method = "Backward fill" -> BackwardFill(df)
    ELSE df

\* the duplicate stage of clean_dataframe
CleanDuplicates(df, opts) ==
    IF opts.handle_duplicates
    THEN IF ~Falsy(opts.join_key) /\ HasColumn(df, opts.join_key)
         THEN DropDuplicates(df, << opts.join_key >>)
         ELSE DropDuplicates(df, df.cols)
    ELSE df

\* clean_dataframe(df, options); a key the dict lacks has its default in opts
clean_dataframe(df, opts) ==
    LET cased == IF opts.ignore_case THEN LowerColumns(df) ELSE df
    IN  CleanDuplicates(CleanFill(cased, opts), opts)

CleanDataframe ==
    /\ call.fn = "clean_dataframe"
    /\ at = "called"
    /\ outcome' = Returns(clean_dataframe(call.df, call.options))
    /\ at' = "returned"
    /\ UNCHANGED << call, events >>
    /\ UNCHANGED merger

CleanValues == [ label \in { "ID", "x" } |-> IF label = "ID" THEN { NA, 1, 2 } ELSE { 1, 2 } ]

CleanTables == UNION { TablesOver(<< "ID", "x" >>, n, CleanValues) : n \in 0..MaxDupRows }

CleanOptions ==
    { OptionsRecord(method, key, "outer", FALSE, icase, dups, fill) :
        method \in { Append_, Join_ }, key \in { None, "ID", "id" },
        icase \in BOOLEAN, dups \in BOOLEAN, fill \in { "None (keep NaN)", "Zero" } }

CleanCalls ==
    { [ fn |-> "clean_dataframe", df |-> df, options |-> opts ] :
        df \in CleanTables, opts \in CleanOptions }

InitDuplicates ==
    /\ NoMerge
    /\ call \in DetectCalls \cup CleanCalls
    /\ at = "called"
    /\ events = << >>
    /\ outcome = NoResult

NextDuplicates == DetectDuplicates \/ CleanDataframe

SpecDuplicates == InitDuplicates /\ [][NextDuplicates]_vars

\* the rows of t that agree with no earlier row on the labels of compared,
\* in the order of t
FirstOccurrences(t, compared) ==
    LET kept == SelectSeq([ r \in 1..RowCount(t) |-> r ],
                          LAMBDA r : \A p \in 1..(r - 1) :
                                         \E c \in compared : Cell(t, p, c) # Cell(t, r, c))
    IN  [ k \in 1..Len(kept) |-> t.rows[kept[k]] ]

\* the labels the claim has duplicates compared on
ComparedByClaim(t, opts) ==
    IF ~Falsy(opts.join_key) /\ StartsWithJoin(opts.merge_method)
    THEN { opts.join_key }
    ELSE ColumnSet(t)

\* clean_dataframe with duplicate handling on: first occurrences kept, in
\* order, compared as the claim says
CleanDataframeDuplicates ==
    (call.fn = "clean_dataframe" /\ at = "returned" /\ call.options.handle_duplicates) =>
        LET opts == call.options
            before == CleanFill(IF opts.ignore_case THEN LowerColumns(call.df) ELSE call.df,
                                opts)
            compared == ComparedByClaim(before, opts)
        IN  compared \subseteq ColumnSet(before) =>
                outcome.value = Table(before.cols, FirstOccurrences(before, compared))

\* the cleaning loop of process_files with duplicate handling on, no fill:
\* the same, for every table that has been cleaned
CleaningLoopDuplicates ==
    (pc \in { "clean", "merge" } /\ options.handle_duplicates /\ ~options.fill_missing) =>
        \A k \in 1..Len(dfs) :
            (pc = "merge" \/ k < i) =>
                LET loaded == uploaded_files[file_names[k]].table
                    before == IF options.ignore_case THEN LowerColumns(loaded) ELSE loaded
                    compared == ComparedByClaim(before, options)
                IN  compared \subseteq ColumnSet(before) =>
                        dfs[k] = Table(before.cols, FirstOccurrences(before, compared))

\* C14 (as claimed): with duplicate handling on, rows are compared on the
\* join-key column only if a join key is set and the strategy is a join, on
\* all columns otherwise; the first occurrence is kept and the order is
\* unchanged; in clean_dataframe and in the cleaning loop of process_files.
C14_DuplicateScope == CleanDataframeDuplicates /\ CleaningLoopDuplicates

-----------------------------------------------------------------------------
(* FileMerger.load_data, step by step.  events records the checks made and *)
(* the functions called on the file; detect_encoding and read_file are the *)
(* ones that read bytes of it.                                             *)

\* a size check that also rejects a file of exactly the ceiling
ExceedsMaxSizeInclusive(file) == file.size >= MaxFileSizeBytes

\* uploaded_file.size > (self.max_file_size_mb * 1024 * 1024)
ExceedsMaxSize(file) == file.size > MaxFileSizeBytes

LoadResult(ok, df, kind) == [ ok |-> ok, df |-> df, error |-> Message(kind, 1, << >>) ]

LoadDataCheckSize ==
    /\ call.fn = "load_data"
    /\ at = "called"
    /\ events' = Append(events, "size_check")
    /\ IF ExceedsMaxSize(call.file)
       THEN /\ outcome' = Returns(LoadResult(FALSE, NoTable, "too_large"))
            /\ at' = "returned"
       ELSE /\ at' = "size_ok"
            /\ UNCHANGED outcome
    /\ UNCHANGED call
    /\ UNCHANGED merger

LoadDataCheckFormat ==
    /\ call.fn = "load_data"
    /\ at = "size_ok"
    /\ events' = Append(events, "extension_check")
    /\ IF FileExtension(call.file) \notin SupportedFormats
       THEN /\ outcome' = Returns(LoadResult(FALSE, NoTable, "unsupported_format"))
            /\ at' = "returned"
       ELSE /\ at' = "format_ok"
            /\ UNCHANGED outcome
    /\ UNCHANGED call
    /\ UNCHANGED merger

\* the try block: get_file_info, detect_encoding for csv, read_file
LoadDataRead ==
    /\ call.fn = "load_data"
    /\ at = "format_ok"
    /\ events' = events \o << "get_file_info" >>
                        \o (IF FileExtension(call.file) = "csv"
                            THEN << "detect_encoding" >> ELSE << >>)
                        \o << "read_file" >>
    /\ outcome' = Returns(IF ~call.file.readable
                          THEN LoadResult(FALSE, NoTable, "load_error")
                          ELSE IF IsEmpty(call.file.table)
                          THEN LoadResult(FALSE, NoTable, "empty")
                          ELSE LoadResult(TRUE, call.file.table, "none"))
    /\ at' = "returned"
    /\ UNCHANGED call
    /\ UNCHANGED merger

(* SpecLoad: files around the size ceiling, of every extension.            *)

LoadSizes == { 0, 1024, MaxFileSizeBytes - 1, MaxFileSizeBytes, MaxFileSizeBytes + 1,
               2 * MaxFileSizeBytes }

LoadExtensions == { "csv", "CSV", "xlsx", "xls", "json", "Json", "txt", "pdf", "" }

LoadCalls ==
    { [ fn |-> "load_data", file |-> UploadedFile(size, ext, readable, table) ] :
        size \in LoadSizes, ext \in LoadExtensions, readable \in BOOLEAN,
        table \in { NoTable, PriorTable } }

InitLoad ==
    /\ NoMerge
    /\ call \in LoadCalls
    /\ at = "called"
    /\ events = << >>
    /\ outcome = NoResult

NextLoad == LoadDataCheckSize \/ LoadDataCheckFormat \/ LoadDataRead

SpecLoad == InitLoad /\ [][NextLoad]_vars

\* the functions that read bytes of the file
Reads == { "detect_encoding", "read_file" }

\* C15: load_data returns no table and an error, having read no byte of the
\* file, when the size is above the ceiling (a file of exactly the ceiling
\* is accepted) and when the extension is not csv, xlsx, xls or json; the
\* size is checked before the extension.
C15_RejectedUnread ==
    /\ \A k \in 1..Len(events) :
          /\ events[k] = "extension_check" => \E m \in 1..(k - 1) : events[m] = "size_check"
          /\ events[k] \in Reads =>
                /\ call.file.size <= 100 * 1024 * 1024
                /\ FileExtension(call.file) \in { "csv", "xlsx", "xls", "json" }
                /\ \E m \in 1..(k - 1) : events[m] = "extension_check"
    /\ (call.fn = "load_data" /\ at = "returned") =>
          LET file == call.file
              too_large == file.size > 100 * 1024 * 1024
              unsupported == FileExtension(file) \notin { "csv", "xlsx", "xls", "json" }
              value == outcome.value
          IN  /\ (too_large \/ unsupported) =>
                    /\ ~value.ok
                    /\ value.df = NoTable
                    /\ value.error.kind \in { "too_large", "unsupported_format" }
                    /\ \A k \in 1..Len(events) : events[k] \notin Reads
              /\ too_large => value.error.kind = "too_large" /\ events = << "size_check" >>
              /\ (file.size = 100 * 1024 * 1024 /\ ~unsupported) =>
                    /\ \E k \in 1..Len(events) : events[k] = "read_file"
                    /\ (file.readable /\ ~IsEmpty(file.table)) => value.ok
              /\ value = load_data(file, 1)

\* a file above the ceiling whose extension is unsupported as well
C15_Witness ==
    /\ call.fn = "load_data"
    /\ at = "returned"
    /\ call.file.size > MaxFileSizeBytes
    /\ call.file.ext = "txt"
    /\ outcome.value.error.kind = "too_large"

-----------------------------------------------------------------------------
(* file_handlers.py: read_file on delimited text and the csv export.  A   *)
(* text is the sequence of its characters.                                 *)

\* uploaded_file.read(4096)
SampleSize == 4096

\* the count a detected delimiter has to exceed
MinDelimiterCount == 5

potential_delimiters == << ",", ";", "\t", "|" >>

\* the separator of pd.read_csv when none is given
DefaultSep == ","

\* sample = uploaded_file.read(4096).decode(...)
Sample(text) == SubSeq(text, 1, IF Len(text) < SampleSize THEN Len(text) ELSE SampleSize)

\* sample.count(d)
Count(sample, d) == Cardinality({ k \in 1..Len(sample) : sample[k] = d })

\* max(delimiter_counts, key = delimiter_counts.get): the first of the
\* delimiters with the highest count
LikelyDelimiter(sample) ==
    LET first == CHOOSE k \in 1..Len(potential_delimiters) :
                    /\ \A m \in 1..Len(potential_delimiters) :
                          Count(sample, potential_delimiters[m])
                              <= Count(sample, potential_delimiters[k])
                    /\ \A m \in 1..(k - 1) :
                          Count(sample, potential_delimiters[m])
                              < Count(sample, potential_delimiters[k])
    IN  potential_delimiters[first]

\* a test that accepts a delimiter seen exactly MinDelimiterCount times
AppearsOftenInclusive(count) == count >= MinDelimiterCount

\* delimiter_counts[likely_delimiter] > 5
AppearsOften(count) == count > MinDelimiterCount

\* the sep read_file passes to pd.read_csv when the caller gave none
DetectedSep(text) ==
    LET likely_delimiter == LikelyDelimiter(Sample(text))
    IN  IF AppearsOften(Count(Sample(text), likely_delimiter))
        THEN likely_delimiter
        ELSE DefaultSep

\* str.split(sep): the fields between the occurrences of sep
Split(chars, sep) ==
    LET cuts == SelectSeq([ k \in 1..Len(chars) |-> k ], LAMBDA k : chars[k] = sep)
        from(k) == IF k = 1 THEN 1 ELSE cuts[k - 1] + 1
        to(k) == IF k = Len(cuts) + 1 THEN Len(chars) ELSE cuts[k] - 1
    IN  [ k \in 1..(Len(cuts) + 1) |-> SubSeq(chars, from(k), to(k)) ]

\* the lines of a text that are not blank (skip_blank_lines = True)
Lines(text) == SelectSeq(Split(text, "\n"), LAMBDA line : line # << >>)

\* pd.read_csv(text, sep = sep) for text without quotes: the header fields
\* as the column names and the number of data rows; a data row with more
\* fields than both the header and the first data row raises ParserError,
\* no line at all raises EmptyDataError
ReadCsv(text, sep) ==
    LET lines == Lines(text)
        fields == [ k \in 1..Len(lines) |-> Split(lines[k], sep) ]
        width == IF Len(lines) > 1 /\ Len(fields[2]) > Len(fields[1])
                 THEN Len(fields[2]) ELSE Len(fields[1])
    IN  IF lines = << >> \/ \E k \in 3..Len(lines) : Len(fields[k]) > width
        THEN [ raised |-> TRUE, sep |-> sep, columns |-> << >>, rows |-> 0 ]
        ELSE [ raised |-> FALSE, sep |-> sep, columns |-> fields[1],
               rows |-> Len(lines) - 1 ]

\* read_file(uploaded_file, "csv") with no delimiter and no sep in kwargs
read_file_csv(text) == ReadCsv(text, DetectedSep(text))

\* the bytes of an uploaded file described by content: filler characters,
\* then each delimiter as often as counts says, on one line
FileText(content) ==
    [ k \in 1..content.filler |-> "a" ]
    \o Flatten([ d \in 1..Len(potential_delimiters) |->
                   [ k \in 1..content.counts[d] |-> potential_delimiters[d] ] ])
    \o << "\n" >>

ReadFile ==
    /\ call.fn = "read_file"
    /\ at = "called"
    /\ outcome' = Returns(read_file_csv(FileText(call.content)))
    /\ at' = "returned"
    /\ UNCHANGED << call, events >>
    /\ UNCHANGED merger

(* SpecRead: read_file on texts holding each delimiter up to               *)
(* MaxDelimiters times, before and past the end of the sample.             *)

MaxDelimiters == 7

\* how often a delimiter occurs: not at all, or about MinDelimiterCount times
DelimiterCounts == { 0 } \cup ((MinDelimiterCount - 1)..MaxDelimiters)

ReadCalls ==
    { [ fn |-> "read_file", content |-> [ filler |-> filler, counts |-> counts ] ] :
        filler \in { 0, SampleSize - 6, SampleSize },
        counts \in [ 1..Len(potential_delimiters) -> DelimiterCounts ] }

InitRead ==
    /\ NoMerge
    /\ call \in ReadCalls
    /\ at = "called"
    /\ events = << >>
    /\ outcome = NoResult

NextRead == ReadFile

SpecRead == InitRead /\ [][NextRead]_vars

\* how often the delimiter at position d of potential_delimiters occurs
\* in the first 4096 characters of the file of the call
InSample(d) ==
    LET before == call.content.filler
                  + SumSeq([ m \in 1..(d - 1) |-> call.content.counts[m] ])
        room == IF before >= 4096 THEN 0 ELSE 4096 - before
    IN  IF call.content.counts[d] < room THEN call.content.counts[d] ELSE room

\* C16 (as claimed): every delimiter that appears more than 5 times in the
\* first 4096 bytes is the separator read_file selects.
C16_EveryFrequentDelimiter ==
    (call.fn = "read_file" /\ at = "returned") =>
        \A d \in 1..4 : InSample(d) > 5 => outcome.value.sep = potential_delimiters[d]

\* C16 (amended): the separator read_file selects is the delimiter that
\* appears most often in the first 4096 bytes, the earliest of comma,
\* semicolon, tab, pipe among equals, if it appears more than 5 times, and
\* the comma otherwise.
C16_MostFrequentDelimiter ==
    (call.fn = "read_file" /\ at = "returned") =>
        LET Best(d) == /\ \A m \in 1..4 : InSample(m) <= InSample(d)
                       /\ \A m \in 1..(d - 1) : InSample(m) < InSample(d)
        IN  \A d \in 1..4 :
                Best(d) => outcome.value.sep = IF InSample(d) > 5
                                               THEN potential_delimiters[d]
                                               ELSE ","

\* semicolons six times and commas five times: the semicolon is selected
C16_Witness ==
    /\ call.fn = "read_file"
    /\ at = "returned"
    /\ call.content.filler = 0
    /\ call.content.counts = << 5, 6, 0, 0 >>
    /\ outcome.value.sep = ";"

\* sep.join(fields)
RECURSIVE JoinFields(_, _)
JoinFields(fields, sep) ==
    IF fields = << >> THEN << >>
    ELSE IF Len(fields) = 1 THEN Head(fields)
    ELSE Head(fields) \o << sep >> \o JoinFields(Tail(fields), sep)

\* df.to_csv(index = False) for a table whose cells are texts: a header line
\* and one line per row, comma-separated; no field of the model holds a
\* comma, a quote or a line break, so none is quoted
to_csv(df) ==
    LET header == JoinFields([ j \in 1..Len(df.cols) |-> Chars(df.cols[j]) ], ",")
        line(r) == JoinFields(df.rows[r], ",")
    IN  header \o << "\n" >>
        \o Flatten([ r \in 1..Len(df.rows) |-> line(r) \o << "\n" >> ])

\* get_download_link_multi_format(df, formats = ["csv"]): the exported bytes
ExportCsv ==
    /\ call.fn = "round_trip"
    /\ at = "called"
    /\ events' = << to_csv(call.df) >>
    /\ at' = "exported"
    /\ UNCHANGED << call, outcome >>
    /\ UNCHANGED merger

\* read_file on the exported bytes, with no delimiter supplied
ReadBack ==
    /\ call.fn = "round_trip"
    /\ at = "exported"
    /\ outcome' = Returns(read_file_csv(events[1]))
    /\ at' = "returned"
    /\ UNCHANGED << call, events >>
    /\ UNCHANGED merger

(* SpecRoundTrip: tables of text cells, some holding semicolons.           *)

MaxCsvRows == 3

\* the text cells: a word, a number, a text with two semicolons
CsvCell == { << "a" >>, << "1" >>, << "a", ";", "a", ";", "a" >> }

CsvValues == [ label \in { "id", "x" } |-> CsvCell ]

CsvTables ==
    UNION { TablesOver(cols, n, CsvValues) :
              cols \in { << "id" >>, << "id", "x" >> }, n \in 1..MaxCsvRows }

InitRoundTrip ==
    /\ NoMerge
    /\ call \in { [ fn |-> "round_trip", df |-> df ] : df \in CsvTables }
    /\ at = "called"
    /\ events = << >>
    /\ outcome = NoResult

NextRoundTrip == ExportCsv \/ ReadBack

SpecRoundTrip == InitRoundTrip /\ [][NextRoundTrip]_vars

\* C17 (as claimed): a non-empty table exported as csv and read back by
\* read_file with no delimiter supplied has the same number of rows and
\* the same column names in the same order.
C17_RoundTrip ==
    (call.fn = "round_trip" /\ at = "returned") =>
        /\ ~outcome.value.raised
        /\ outcome.value.rows = RowCount(call.df)
        /\ outcome.value.columns = [ j \in 1..Len(call.df.cols) |-> Chars(call.df.cols[j]) ]

-----------------------------------------------------------------------------
(* suggest_column_mapping with a list of source names, called on its own.  *)

SuggestMapping ==
    /\ call.fn = "suggest_column_mapping"
    /\ at = "called"
    /\ outcome' = Returns(suggest_column_mapping(call.source, call.target_columns,
                                                 call.threshold))
    /\ at' = "returned"
    /\ UNCHANGED << call, events >>
    /\ UNCHANGED merger

(* SpecMapping: one or two source names, up to MaxTargets candidates.      *)

MaxTargets == 2

SourceNames == { "id", "idx", "" }

TargetNames == { "id", "ID", "idx", "ids", "x", "" }

\* the thresholds 0, 0.5, 0.8 and 1
Thresholds == { << 0, 1 >>, << 1, 2 >>, << 8, 10 >>, << 1, 1 >> }

MappingCalls ==
    { [ fn |-> "suggest_column_mapping", source |-> source,
        target_columns |-> target_columns, threshold |-> threshold ] :
        source \in UNION { [ 1..n -> SourceNames ] : n \in 1..2 },
        target_columns \in UNION { [ 1..n -> TargetNames ] : n \in 0..MaxTargets },
        threshold \in Thresholds }

InitMapping ==
    /\ NoMerge
    /\ call \in MappingCalls
    /\ at = "called"
    /\ events = << >>
    /\ outcome = NoResult

NextMapping == SuggestMapping

SpecMapping == InitMapping /\ [][NextMapping]_vars

\* the returned dict holds src_col
Mapped(src_col) == \E k \in 1..Len(outcome.value) : outcome.value[k][1] = src_col

\* the returned dict maps src_col to tgt_col, and to nothing else
MappedTo(src_col, tgt_col) ==
    /\ Mapped(src_col)
    /\ \A k \in 1..Len(outcome.value) :
          outcome.value[k][1] = src_col => outcome.value[k][2] = tgt_col

\* the position of the earliest of the most similar candidates among those
\* at the positions in eligible
Earliest(src_col, eligible) ==
    CHOOSE k \in eligible :
        /\ \A m \in eligible :
              FracGE(Similarity(src_col, call.target_columns[k]),
                     Similarity(src_col, call.target_columns[m]))
        /\ \A m \in eligible :
              m < k => FracGT(Similarity(src_col, call.target_columns[k]),
                              Similarity(src_col, call.target_columns[m]))

\* C18 (as claimed): every source name is mapped to the most similar of the
\* candidates with similarity >= threshold, the earliest among equals, and
\* is absent when there is no such candidate.
C18_BestAtOrAboveThreshold ==
    (call.fn = "suggest_column_mapping" /\ at = "returned") =>
        \A j \in 1..Len(call.source) :
            LET src_col == call.source[j]
                eligible == { k \in 1..Len(call.target_columns) :
                                FracGE(Similarity(src_col, call.target_columns[k]),
                                       call.threshold) }
            IN  IF eligible = {} THEN ~Mapped(src_col)
                ELSE MappedTo(src_col, call.target_columns[Earliest(src_col, eligible)])

\* C18 (amended): every source name is mapped, whatever the other source
\* names, to the most similar of the candidates with similarity >= threshold
\* and > 0, the earliest among equals; it is absent when there is no such
\* candidate and when the candidate found is the empty name.
C18_BestPositiveMatch ==
    (call.fn = "suggest_column_mapping" /\ at = "returned") =>
        \A j \in 1..Len(call.source) :
            LET src_col == call.source[j]
                eligible == { k \in 1..Len(call.target_columns) :
                                /\ FracGE(Similarity(src_col, call.target_columns[k]),
                                          call.threshold)
                                /\ FracGT(Similarity(src_col, call.target_columns[k]),
                                          << 0, 1 >>) }
            IN  IF eligible = {} \/ call.target_columns[Earliest(src_col, eligible)] = ""
                THEN ~Mapped(src_col)
                ELSE MappedTo(src_col, call.target_columns[Earliest(src_col, eligible)])

\* two candidates of equal similarity 0.8 to "id": the earlier one is chosen,
\* next to a source name that finds no candidate
C18_Witness ==
    /\ call.fn = "suggest_column_mapping"
    /\ at = "returned"
    /\ call.source = << "id", "" >>
    /\ call.target_columns = << "ids", "idx" >>
    /\ call.threshold = << 8, 10 >>
    /\ outcome.value = << << "id", "ids" >> >>

-----------------------------------------------------------------------------
(* plugins/data_transformers: apply_transformer, step by step.  events     *)
(* records the methods of the transformer that are called.                 *)

\* a key the params dict does not hold
Absent == "<absent>"

\* _transformers: the parameters of two registered transformers, by name
Transformers ==
    [ name \in { "Date Format Transformer", "Date Component Extractor" } |->
        IF name = "Date Format Transformer"
        THEN << [ name |-> "column", required |-> TRUE ],
                [ name |-> "input_format", required |-> FALSE ],
                [ name |-> "output_format", required |-> TRUE ] >>
        ELSE << [ name |-> "column", required |-> TRUE ],
                [ name |-> "component", required |-> TRUE ],
                [ name |-> "target_column", required |-> TRUE ] >> ]

\* a test of a required parameter that accepts the empty string
IsMissingNotEmpty(params, name) ==
    \/ name \notin DOMAIN params
    \/ params[name] = Absent
    \/ params[name] = None

\* name not in params or params[name] is None or params[name] == ''
IsMissing(params, name) ==
    \/ name \notin DOMAIN params
    \/ params[name] = Absent
    \/ params[name] = None
    \/ params[name] = ""

\* validate_parameters: the names of the required parameters in error
validate_parameters(parameters, params) ==
    { parameters[k].name : k \in { m \in 1..Len(parameters) :
                                      /\ parameters[m].required
                                      /\ IsMissing(params, parameters[m].name) } }

\* what apply_transformer returns: a mapping of error messages by key, or
\* the table transform returned; input is the caller's table at that time
ErrorMapping(keys, input) == [ is_table |-> FALSE, keys |-> keys, input |-> input ]

TransformedTable(input) == [ is_table |-> TRUE, keys |-> {}, input |-> input ]

\* transformer = get_transformer(transformer_name)
ApplyGetTransformer ==
    /\ call.fn = "apply_transformer"
    /\ at = "called"
    /\ IF call.transformer_name \notin DOMAIN Transformers
       THEN /\ outcome' = Returns(ErrorMapping({ "error" }, call.df))
            /\ at' = "returned"
       ELSE /\ at' = "found"
            /\ UNCHANGED outcome
    /\ UNCHANGED << call, events >>
    /\ UNCHANGED merger

\* errors = transformer.validate_parameters(params)
ApplyValidate ==
    /\ call.fn = "apply_transformer"
    /\ at = "found"
    /\ events' = Append(events, "validate_parameters")
    /\ LET errors == validate_parameters(Transformers[call.transformer_name], call.params)
       IN  IF errors # {}
           THEN /\ outcome' = Returns(ErrorMapping(errors, call.df))
                /\ at' = "returned"
           ELSE /\ at' = "validated"
                /\ UNCHANGED outcome
    /\ UNCHANGED call
    /\ UNCHANGED merger

\* the try block: transform works on a copy of df, and returns or raises
ApplyTransform ==
    /\ call.fn = "apply_transformer"
    /\ at = "validated"
    /\ events' = Append(events, "transform")
    /\ \E raises \in BOOLEAN :
          outcome' = Returns(IF raises THEN ErrorMapping({ "error" }, call.df)
                             ELSE TransformedTable(call.df))
    /\ at' = "returned"
    /\ UNCHANGED call
    /\ UNCHANGED merger

(* SpecTransformer: every way of giving or leaving out three parameters.  *)

ParamValues == { Absent, None, "", "date" }

ParamsOf(names) == [ names -> ParamValues ]

TransformerCalls ==
    { [ fn |-> "apply_transformer", df |-> PriorTable, transformer_name |-> name,
        params |-> params ] :
        name \in { "Date Format Transformer", "No Such Transformer" },
        params \in ParamsOf({ "column", "input_format", "output_format" }) }
    \cup
    { [ fn |-> "apply_transformer", df |-> PriorTable,
        transformer_name |-> "Date Component Extractor", params |-> params ] :
        params \in ParamsOf({ "column", "component", "target_column" }) }

InitTransformer ==
    /\ NoMerge
    /\ call \in TransformerCalls
    /\ at = "called"
    /\ events = << >>
    /\ outcome = NoResult

NextTransformer == ApplyGetTransformer \/ ApplyValidate \/ ApplyTransform

SpecTransformer == InitTransformer /\ [][NextTransformer]_vars

\* the required parameters of the transformer of the call that params lacks
\* or gives as None or as the empty string
LackingRequired ==
    IF call.transformer_name = "Date Format Transformer"
    THEN { n \in { "column", "output_format" } : call.params[n] \in { Absent, None, "" } }
    ELSE IF call.transformer_name = "Date Component Extractor"
    THEN { n \in { "column", "component", "target_column" } :
             call.params[n] \in { Absent, None, "" } }
    ELSE {}

Registered ==
    call.transformer_name \in { "Date Format Transformer", "Date Component Extractor" }

\* C19: transform is called only after validate_parameters has returned no
\* errors; for an unregistered name and for a required parameter that is
\* missing, None or empty, apply_transformer returns an error mapping,
\* transform is never called and the input table is as it was.
C19_ValidatedBeforeTransform ==
    call.fn = "apply_transformer" =>
        /\ \A k \in 1..Len(events) :
              events[k] = "transform" =>
                  /\ \E m \in 1..(k - 1) : events[m] = "validate_parameters"
                  /\ Registered
                  /\ LackingRequired = {}
        /\ (at = "returned" /\ (~Registered \/ LackingRequired # {})) =>
              /\ ~outcome.value.is_table
              /\ outcome.value.keys = IF Registered THEN LackingRequired ELSE { "error" }
              /\ \A k \in 1..Len(events) : events[k] # "transform"
              /\ outcome.value.input = call.df
        /\ (at = "returned" /\ outcome.value.is_table) =>
              events = << "validate_parameters", "transform" >>

\* a required parameter given as the empty string: an error under its name
C19_Witness ==
    /\ call.fn = "apply_transformer"
    /\ at = "returned"
    /\ call.transformer_name = "Date Format Transformer"
    /\ call.params["column"] = "date"
    /\ call.params["output_format"] = ""
    /\ outcome.value.keys = { "output_format" }
    /\ events = << "validate_parameters" >>

-----------------------------------------------------------------------------
(* apply_data_transformations, one pass of its loop at a time.  The local  *)
(* result and the caller's df are tables; shared tells whether they are    *)
(* the same object, so that an assignment into result reaches df.          *)

\* params is None instead of a dict
NoParams == [ none |-> TRUE ]

\* None where a cell value is expected
NoValue == -2

\* a filter value float() raises on, such as "abc"
NotNumber == -3

\* an expression "<column> + <addend>" over one column
Evaluate(t, expression) ==
    [ r \in 1..RowCount(t) |->
        IF IsNA(Cell(t, r, expression.column)) THEN NA
        ELSE Cell(t, r, expression.column) + expression.addend ]

\* result[column_name] = series: replaces the column, or adds it at the end
SetColumn(t, column_name, series) ==
    IF HasColumn(t, column_name)
    THEN Table(t.cols,
               [ r \in 1..RowCount(t) |->
                   [ j \in 1..Len(t.cols) |->
                       IF t.cols[j] = column_name THEN series[r] ELSE t.rows[r][j] ] ])
    ELSE Table(Append(t.cols, column_name),
               [ r \in 1..RowCount(t) |-> Append(t.rows[r], series[r]) ])

\* result[mask]: the rows at which the boolean series mask is true
FilterRows(t, mask) ==
    LET kept == SelectSeq([ r \in 1..RowCount(t) |-> r ], LAMBDA r : mask[r])
    IN  Table(t.cols, [ k \in 1..Len(kept) |-> t.rows[kept[k]] ])

\* result.drop(columns = [col for col in cols_to_drop if col in result.columns])
DropColumns(t, cols_to_drop) ==
    LET kept == SelectSeq([ j \in 1..Len(t.cols) |-> j ],
                          LAMBDA j : ~Contains(cols_to_drop, t.cols[j]))
    IN  Table([ k \in 1..Len(kept) |-> t.cols[kept[k]] ],
              [ r \in 1..RowCount(t) |-> [ k \in 1..Len(kept) |-> t.rows[r][kept[k]] ] ])

\* one transformation on the table t: whether it raises, the table result
\* names afterwards, and whether that is still the same object
Unchanged(t) == [ raised |-> FALSE, df |-> t, same_object |-> TRUE ]

Raises(t) == [ raised |-> TRUE, df |-> t, same_object |-> TRUE ]

\* result = <a new table>
Rebound(t) == [ raised |-> FALSE, df |-> t, same_object |-> FALSE ]

\* result[col_name] = <a new column>
InPlace(t) == [ raised |-> FALSE, df |-> t, same_object |-> TRUE ]

Transformation(t, transform) ==
    LET params == transform.params
        col == params.column
        present == ~Falsy(col) /\ HasColumn(t, col)
        at_col == IF present THEN IndexOf(t.cols, col) ELSE 0
        cell(r) == t.rows[r][at_col]
    IN  IF params = NoParams /\ transform.type \in
              { "create_calculated_column", "convert_column_type", "replace_values",
                "filter_rows", "rename_columns", "drop_columns" }
        THEN Raises(t)
        ELSE CASE transform.type = "create_calculated_column" ->
                    IF HasColumn(t, params.expression.column)
                    THEN Rebound(SetColumn(t, params.column_name,
                                           Evaluate(t, params.expression)))
                    ELSE Raises(t)
               [] transform.type = "convert_column_type" ->
                    IF present /\ params.type = "number" THEN InPlace(t) ELSE Unchanged(t)
               [] transform.type = "replace_values" ->
                    IF present /\ params.find # NoValue
                    THEN InPlace(SetColumn(t, col,
                                          [ r \in 1..RowCount(t) |->
                                              IF t.rows[r][at_col] = params.find
                                              THEN params.replace ELSE t.rows[r][at_col] ]))
                    ELSE Unchanged(t)
               [] transform.type = "filter_rows" ->
                    IF present /\ params.value # NoValue
                    THEN CASE params.filter_type = "equals" ->
                                Rebound(FilterRows(t, [ r \in 1..RowCount(t) |-> cell(r) = params.value ]))
                           [] params.filter_type = "not_equals" ->
                                Rebound(FilterRows(t, [ r \in 1..RowCount(t) |-> cell(r) # params.value ]))
                           [] params.filter_type = "greater_than" ->
                                \* try: ... float(filter_val) ... except: pass
                                IF params.value = NotNumber THEN Unchanged(t)
                                ELSE Rebound(FilterRows(t, [ r \in 1..RowCount(t) |->
                                                         ~IsNA(cell(r)) /\ cell(r) > params.value ]))
                           [] params.filter_type = "less_than" ->
                                IF params.value = NotNumber THEN Unchanged(t)
                                ELSE Rebound(FilterRows(t, [ r \in 1..RowCount(t) |->
                                                         ~IsNA(cell(r)) /\ cell(r) < params.value ]))
                           [] OTHER -> Unchanged(t)
                    ELSE Unchanged(t)
               [] transform.type = "rename_columns" ->
                    IF DOMAIN params.mapping # {} THEN Rebound(Rename(t, params.mapping))
                    ELSE Unchanged(t)
               [] transform.type = "drop_columns" ->
                    IF params.columns # << >> THEN Rebound(DropColumns(t, params.columns))
                    ELSE Unchanged(t)
               [] OTHER -> Unchanged(t)

\* the local state of the call: result, the caller's df, whether they are one object
Work(result_df, input, shared) ==
    [ returned |-> FALSE, value |-> result_df, input |-> input, shared |-> shared ]

\* result = df, without a copy
StartOfWorkShared(df) == Work(df, df, TRUE)

\* result = df.copy()
StartOfWork(df) == Work(df, df, FALSE)

TransformCopy ==
    /\ call.fn = "apply_data_transformations"
    /\ at = "called"
    /\ outcome' = StartOfWork(call.df)
    /\ at' = "loop"
    /\ UNCHANGED << call, events >>
    /\ UNCHANGED merger

\* one pass of the loop, on the transformation after those in events
TransformStep ==
    /\ call.fn = "apply_data_transformations"
    /\ at = "loop"
    /\ Len(events) < Len(call.transformations)
    /\ LET transform == call.transformations[Len(events) + 1]
           effect == Transformation(outcome.value, transform)
       IN  /\ events' = Append(events, IF effect.raised THEN "logged_error" ELSE "applied")
           /\ outcome' = IF effect.raised THEN outcome
                          ELSE Work(effect.df,
                                    IF effect.same_object /\ outcome.shared
                                    THEN effect.df ELSE outcome.input,
                                    effect.same_object /\ outcome.shared)
    /\ UNCHANGED << call, at >>
    /\ UNCHANGED merger

TransformReturn ==
    /\ call.fn = "apply_data_transformations"
    /\ at = "loop"
    /\ Len(events) = Len(call.transformations)
    /\ outcome' = [ outcome EXCEPT !.returned = TRUE ]
    /\ at' = "returned"
    /\ UNCHANGED << call, events >>
    /\ UNCHANGED merger

(* SpecTransformations: up to MaxSteps transformations on a small table.   *)

MaxSteps == 2

Step(type, params) == [ type |-> type, params |-> params ]

\* transformations that apply, one that raises on a name no column has, one
\* whose params is None, one that raises once "x" is gone, a filter whose
\* value is not a number, one of no known type
Steps ==
    { Step("create_calculated_column",
           [ column_name |-> "idx", expression |-> [ column |-> "x", addend |-> 1 ] ]),
      Step("create_calculated_column",
           [ column_name |-> "ids", expression |-> [ column |-> "idz", addend |-> 1 ] ]),
      Step("convert_column_type", [ column |-> "id", type |-> "number" ]),
      Step("replace_values", [ column |-> "x", find |-> 1, replace |-> 7 ]),
      Step("filter_rows", [ column |-> "id", filter_type |-> "greater_than", value |-> 1 ]),
      Step("filter_rows", [ column |-> "x", filter_type |-> "equals", value |-> 7 ]),
      Step("filter_rows", [ column |-> "x", filter_type |-> "equals", value |-> NoValue ]),
      Step("filter_rows", [ column |-> "id", filter_type |-> "less_than", value |-> NotNumber ]),
      Step("rename_columns", [ mapping |-> [ c \in { "x" } |-> "idy" ] ]),
      Step("drop_columns", [ columns |-> << "x" >> ]),
      Step("drop_columns", NoParams),
      Step("sort_rows", [ column |-> "id" ]) }

TransformationLists == UNION { [ 1..n -> Steps ] : n \in 0..MaxSteps }

TransformationTables ==
    { Table(<< "id", "x" >>, << << 1, 1 >>, << 2, NA >>, << 3, 7 >> >>),
      Table(<< "id" >>, << << 1 >>, << 2 >> >>) }

InitTransformations ==
    /\ NoMerge
    /\ call \in { [ fn |-> "apply_data_transformations", df |-> df,
                     transformations |-> transformations ] :
                     df \in TransformationTables, transformations \in TransformationLists }
    /\ at = "called"
    /\ events = << >>
    /\ outcome = NoResult

NextTransformations == TransformCopy \/ TransformStep \/ TransformReturn

SpecTransformations == InitTransformations /\ [][NextTransformations]_vars

\* the table after the first k transformations of the call, applied in list
\* order, a raising one leaving the table as it was
RECURSIVE AfterSteps(_)
AfterSteps(k) ==
    IF k = 0 THEN call.df
    ELSE LET before == AfterSteps(k - 1)
             effect == Transformation(before, call.transformations[k])
         IN  IF effect.raised THEN before ELSE effect.df

\* C20: the transformations are applied in list order; one that raises is
\* skipped and leaves the working table as it was before it; the ones after
\* it are still applied; the caller's table is never modified.
C20_StepsInOrder ==
    (call.fn = "apply_data_transformations" /\ at \in { "loop", "returned" }) =>
        /\ outcome.value = AfterSteps(Len(events))
        /\ \A k \in 1..Len(events) :
              (events[k] = "logged_error")
                  = Transformation(AfterSteps(k - 1), call.transformations[k]).raised
        /\ outcome.input = call.df
        /\ at = "returned" => Len(events) = Len(call.transformations)

\* a transformation that raises, and the one after it applied all the same
C20_Witness ==
    /\ call.fn = "apply_data_transformations"
    /\ at = "returned"
    /\ events = << "logged_error", "applied" >>
    /\ call.transformations[1].type = "create_calculated_column"
    /\ call.transformations[2].type = "replace_values"
    /\ outcome.value # call.df
    /\ outcome.input = call.df

-----------------------------------------------------------------------------
(* Steps of apply_data_transformations that fail or cannot be applied.     *)

StepTypes ==
    { "create_calculated_column", "convert_column_type", "replace_values",
      "filter_rows", "rename_columns", "drop_columns" }

\* the step names a column the table does not have
MissingColumn(t, transform) ==
    /\ transform.type \in { "convert_column_type", "replace_values", "filter_rows" }
    /\ transform.params # NoParams
    /\ ~HasColumn(t, transform.params.column)

\* a greater-than or less-than filter whose comparison value is not a number
NonNumericComparison(transform) ==
    /\ transform.type = "filter_rows"
    /\ transform.params # NoParams
    /\ transform.params.filter_type \in { "greater_than", "less_than" }
    /\ transform.params.value = NotNumber

FailsOrCannotApply(t, transform) ==
    \/ Transformation(t, transform).raised
    \/ transform.type \notin StepTypes
    \/ MissingColumn(t, transform)
    \/ NonNumericComparison(transform) /\ HasColumn(t, transform.params.column)

\* C21: every step of a batch that fails or cannot be applied (it raises,
\* its type is unknown, its column is missing, or the comparison value of a
\* greater-than/less-than filter is not a number) produces a log entry.
C21_NoSilentFailure ==
    (call.fn = "apply_data_transformations" /\ at \in { "loop", "returned" }) =>
        \A k \in 1..Len(events) :
            FailsOrCannotApply(AfterSteps(k - 1), call.transformations[k])
                => events[k] = "logged_error"

-----------------------------------------------------------------------------
(* plugins/data_transformers/numeric_transformer.py:                       *)
(* MathOperationTransformer.transform, for operation = 'basic'.  A cell of *)
(* a numeric column is a float; the tables of SpecMath hold whole-number   *)
(* dividends that every divisor divides, so that a quotient is a whole     *)
(* number too.                                                             *)

\* the float inf, which a / 0 gives for a > 0
Inf == -4

\* params.get(key, default)
Get(params, key, default) == IF key \in DOMAIN params THEN params[key] ELSE default

\* a + b, a / b, ... on two floats, NaN written NA
Arith(operator, a, b) ==
    IF IsNA(a) \/ IsNA(b) THEN NA
    ELSE CASE operator = "+" -> a + b
           [] operator = "*" -> a * b
           [] operator = "/" -> IF b = 0 THEN (IF a = 0 THEN NA ELSE Inf) ELSE a \div b
           [] operator = "%" -> IF b = 0 THEN NA ELSE a % b

\* series <operator> series, element by element
SeriesOp(operator, left, right) ==
    [ r \in 1..Len(left) |-> Arith(operator, left[r], right[r]) ]

\* series <operator> scalar
ScalarOp(operator, left, scalar) ==
    [ r \in 1..Len(left) |-> Arith(operator, left[r], scalar) ]

\* a divisor column used as it is
KeepZeros(series) == series

\* operand2.replace(0, np.nan)
ReplaceZeros(series) == [ r \in 1..Len(series) |-> IF series[r] = 0 THEN NA ELSE series[r] ]

\* what transform does: it raises (no table is returned), or returns result;
\* input is the caller's table afterwards
MathRaises(df) == [ raised |-> TRUE, df |-> NoTable, input |-> df ]

MathReturns(result_df, df) == [ raised |-> FALSE, df |-> result_df, input |-> df ]

MathOperationTransform(df, params) ==
    LET column1 == Get(params, "column1", None)
        operator == Get(params, "operator", "+")
        column2 == Get(params, "column2", None)
        value == Get(params, "value", 0)
        use_value == Get(params, "use_value", FALSE)
        target_column == Get(params, "target_column", "result")
        col1_data == Column(df, column1)
        literal == use_value \/ Falsy(column2)
        operand2 == Column(df, column2)
        set(series) == MathReturns(SetColumn(df, target_column, series), df)
    IN  IF ~HasColumn(df, column1) THEN MathRaises(df)
        ELSE IF target_column = "" THEN MathRaises(df)
        ELSE IF ~literal /\ ~HasColumn(df, column2) THEN MathRaises(df)
        ELSE IF operator \in { "+", "*" }
        THEN IF literal THEN set(ScalarOp(operator, col1_data, value))
             ELSE set(SeriesOp(operator, col1_data, operand2))
        ELSE IF operator \in { "/", "%" }
        THEN IF ~literal THEN set(SeriesOp(operator, col1_data, ReplaceZeros(operand2)))
             ELSE IF value = 0 THEN MathRaises(df)
             ELSE set(ScalarOp(operator, col1_data, value))
        ELSE MathReturns(df, df)

MathTransform ==
    /\ call.fn = "MathOperationTransformer.transform"
    /\ at = "called"
    /\ outcome' = Returns(MathOperationTransform(call.df, call.params))
    /\ at' = "returned"
    /\ UNCHANGED << call, events >>
    /\ UNCHANGED merger

(* SpecMath: tables of up to MaxMathRows rows with a dividend column "a"   *)
(* and a divisor column "b"; the divisor given as a column, as a literal,  *)
(* or left to its default.                                                 *)

MaxMathRows == 2

Dividends == { NA, 0, 4 }

Divisors == { NA, 0, 2 }

MathTables ==
    { Table(<< "a", "b" >>, rows) :
        rows \in UNION { [ 1..n -> { << a, b >> : a \in Dividends, b \in Divisors } ] :
                           n \in 0..MaxMathRows } }

\* the params dicts: with column2 or without, with value or without
MathParams ==
    LET base == [ column1 : { "a", "zz" }, operator : { "+", "/", "%", "//" },
                  use_value : BOOLEAN, target_column : { "q", "" } ]
        WithColumn2(ps) == ps \cup { [ k \in DOMAIN p \cup { "column2" } |->
                                         IF k = "column2" THEN c ELSE p[k] ] :
                                       p \in ps, c \in { "b", "zz" } }
        WithValue(ps) == ps \cup { [ k \in DOMAIN p \cup { "value" } |->
                                       IF k = "value" THEN v ELSE p[k] ] :
                                     p \in ps, v \in { 0, 2 } }
    IN  WithValue(WithColumn2(base))

InitMath ==
    /\ NoMerge
    /\ call \in { [ fn |-> "MathOperationTransformer.transform", df |-> df, params |-> params ] :
                    df \in MathTables, params \in MathParams }
    /\ at = "called"
    /\ events = << >>
    /\ outcome = NoResult

NextMath == MathTransform

SpecMath == InitMath /\ [][NextMath]_vars

\* the call has returned, with '/' or '%' on an existing column "a" into "q"
Divided ==
    /\ call.fn = "MathOperationTransformer.transform"
    /\ at = "returned"
    /\ call.params.column1 = "a"
    /\ call.params.target_column = "q"
    /\ call.params.operator \in { "/", "%" }

\* the divisor is the literal value, or its default 0
LiteralDivisor == call.params.use_value \/ "column2" \notin DOMAIN call.params

\* the divisor is the column "b"
ColumnDivisor == ~call.params.use_value /\ Get(call.params, "column2", None) = "b"

\* C22: '/' and '%' with a literal divisor equal to zero (given, or the
\* default when no second column and no value are given) fail and produce
\* no table; with a column as divisor the call does not fail, and the target
\* holds the missing marker in exactly the rows whose divisor is zero or
\* missing and the quotient (remainder) in the other rows, the quotient of a
\* missing dividend being missing.
C22_DivideByZero ==
    Divided =>
        /\ (LiteralDivisor /\ Get(call.params, "value", 0) = 0) =>
              /\ outcome.value.raised
              /\ outcome.value.df = NoTable
        /\ ColumnDivisor =>
              /\ ~outcome.value.raised
              /\ RowCount(outcome.value.df) = RowCount(call.df)
              /\ \A r \in 1..RowCount(call.df) :
                    LET a == Cell(call.df, r, "a")
                        b == Cell(call.df, r, "b")
                        q == Cell(outcome.value.df, r, "q")
                    IN  /\ (b = 0 \/ IsNA(b)) => IsNA(q)
                        /\ (b # 0 /\ ~IsNA(b) /\ ~IsNA(a)) =>
                              q = (IF call.params.operator = "/" THEN a \div b ELSE a % b)
                        /\ (b # 0 /\ ~IsNA(b) /\ IsNA(a)) => IsNA(q)

\* a division by a column with a zero divisor in one row and a proper
\* divisor in the other
C22_Witness ==
    /\ Divided
    /\ ColumnDivisor
    /\ call.params.operator = "/"
    /\ call.df.rows = << << 4, 0 >>, << 4, 2 >> >>
    /\ ~outcome.value.raised
    /\ Column(outcome.value.df, "q") = << NA, 2 >>

-----------------------------------------------------------------------------
(* BinningTransformer.transform, for method = 'custom'.  A text parameter  *)
(* is the sequence of its characters.  The binned column is a categorical: *)
(* each cell is the 1-based position of its category in categories, or NA. *)

DigitChars == { "0", "1", "2", "3", "4", "5", "6", "7", "8", "9" }

\* str.strip()
RECURSIVE Strip(_)
Strip(chars) ==
    IF chars = << >> THEN chars
    ELSE IF Head(chars) = " " THEN Strip(Tail(chars))
    ELSE IF chars[Len(chars)] = " " THEN Strip(SubSeq(chars, 1, Len(chars) - 1))
    ELSE chars

\* float(text) raises unless text is a number; the texts of the model are
\* numbers exactly when they are non-empty runs of digits
IsNumber(chars) == chars # << >> /\ \A k \in 1..Len(chars) : chars[k] \in DigitChars

RECURSIVE ToFloat(_)
ToFloat(chars) ==
    IF chars = << >> THEN 0
    ELSE 10 * ToFloat(SubSeq(chars, 1, Len(chars) - 1))
         + (CHOOSE d \in 0..9 : ToString(d) = chars[Len(chars)])

\* [part.strip() for part in text.split(',')]
StripSplit(text) ==
    LET parts == Split(text, ",")
    IN  [ k \in 1..Len(parts) |-> Strip(parts[k]) ]

\* pd.cut raises unless the edges increase (no input of the model repeats an
\* edge) and the labels, if any, are distinct
CutRaises(bin_edges, labels) ==
    \/ \E k \in 1..(Len(bin_edges) - 1) : bin_edges[k] >= bin_edges[k + 1]
    \/ ~IsUniqueSeq(labels)

\* the position of the bin of v: (a, b] with right, [a, b) without; the
\* lowest edge belongs to the first bin (include_lowest = True)
BinOf(v, bin_edges, right) ==
    LET inside(k) == IF right
                     THEN \/ bin_edges[k] < v /\ v <= bin_edges[k + 1]
                          \/ k = 1 /\ v = bin_edges[1]
                     ELSE bin_edges[k] <= v /\ v < bin_edges[k + 1]
        found == { k \in 1..(Len(bin_edges) - 1) : inside(k) }
    IN  IF IsNA(v) \/ found = {} THEN NA ELSE CHOOSE k \in found : TRUE

\* a test of the labels against the number of edges
LabelsMismatchEdges(labels, bin_edges) == labels # << >> /\ Len(labels) # Len(bin_edges)

\* labels and len(labels) != len(bin_edges) - 1
LabelsMismatch(labels, bin_edges) == labels # << >> /\ Len(labels) # Len(bin_edges) - 1

BinRaises(df) == [ raised |-> TRUE, df |-> NoTable, categories |-> << >>, input |-> df ]

BinningTransform(df, params) ==
    LET column == Get(params, "column", None)
        custom_bins_str == Get(params, "custom_bins", << >>)
        labels_str == Get(params, "labels", << >>)
        target_column == Get(params, "target_column", None)
        include_right == Get(params, "include_right", TRUE)
        numeric_data == Column(df, column)
        labels == IF labels_str # << >> THEN StripSplit(labels_str) ELSE << >>
        edge_texts == StripSplit(custom_bins_str)
        bin_edges == [ k \in 1..Len(edge_texts) |-> ToFloat(edge_texts[k]) ]
        intervals == [ k \in 1..(Len(bin_edges) - 1) |-> << bin_edges[k], bin_edges[k + 1] >> ]
    IN  IF ~HasColumn(df, column) THEN BinRaises(df)
        ELSE IF Falsy(target_column) THEN BinRaises(df)
        ELSE IF custom_bins_str = << >> THEN BinRaises(df)
        ELSE IF \E k \in 1..Len(edge_texts) : ~IsNumber(edge_texts[k]) THEN BinRaises(df)
        ELSE IF Len(bin_edges) < 2 THEN BinRaises(df)
        ELSE IF LabelsMismatch(labels, bin_edges) THEN BinRaises(df)
        ELSE IF CutRaises(bin_edges, labels) THEN BinRaises(df)
        ELSE [ raised |-> FALSE,
               df |-> SetColumn(df, target_column,
                                [ r \in 1..RowCount(df) |->
                                    BinOf(numeric_data[r], bin_edges, include_right) ]),
               categories |-> IF labels # << >> THEN labels ELSE intervals,
               input |-> df ]

BinTransform ==
    /\ call.fn = "BinningTransformer.transform"
    /\ at = "called"
    /\ outcome' = Returns(BinningTransform(call.df, call.params))
    /\ at' = "returned"
    /\ UNCHANGED << call, events >>
    /\ UNCHANGED merger

(* SpecBinning: a column "age" of up to MaxBinRows cells, binned on custom *)
(* edges given as text, with or without labels.                            *)

MaxBinRows == 2

\* "0,18,35,50,65,100"
AgeEdges ==
    << "0", ",", "1", "8", ",", "3", "5", ",", "5", "0", ",", "6", "5", ",", "1", "0", "0" >>

\* the first n characters of "0,18,35,50,65,100" that end an edge, and texts
\* float() or pd.cut rejects
CustomBins ==
    { SubSeq(AgeEdges, 1, n) : n \in { 0, 1, 4, 7, 10, 13, 17 } }
        \cup { << "1", "8", ",", " ", "0" >>, << "0", ",", "x" >>, << "0", ",", " ", "1", "8" >> }

\* "a,b,c,d,e"
FiveLabels == << "a", ",", "b", ",", "c", ",", "d", ",", "e" >>

LabelTexts ==
    { SubSeq(FiveLabels, 1, n) : n \in { 0, 1, 5, 7, 9 } } \cup { << "a", ",", "a" >> }

BinTables ==
    { Table(<< "age" >>, rows) :
        rows \in UNION { [ 1..n -> { << v >> : v \in { NA, 0, 18, 19, 100, 101 } } ] :
                           n \in 0..MaxBinRows } }

BinParams ==
    [ column : { "age", "zz" }, method : { "custom" }, custom_bins : CustomBins,
      labels : LabelTexts, target_column : { "group", "" }, include_right : BOOLEAN ]

InitBinning ==
    /\ NoMerge
    /\ call \in { [ fn |-> "BinningTransformer.transform", df |-> df, params |-> params ] :
                    df \in BinTables, params \in BinParams }
    /\ at = "called"
    /\ events = << >>
    /\ outcome = NoResult

NextBinning == BinTransform

SpecBinning == InitBinning /\ [][NextBinning]_vars

\* the call has returned, for an existing column and a target name
Binned ==
    /\ call.fn = "BinningTransformer.transform"
    /\ at = "returned"
    /\ call.params.column = "age"
    /\ call.params.target_column = "group"

\* the number of edges and of labels in the texts given
EdgeCount == Len(Split(call.params.custom_bins, ","))

LabelCount == IF call.params.labels = << >> THEN 0 ELSE Len(Split(call.params.labels, ","))

\* C23 as stated: 4 labels for 5 edges fail, and the 6 edges
\* [0,18,35,50,65,100] without labels give exactly 5 categories.
C23_FourLabelsFiveEdgesFail ==
    Binned =>
        /\ (EdgeCount = 5 /\ LabelCount = 4) =>
              outcome.value.raised /\ outcome.value.df = NoTable
        /\ (call.params.custom_bins = AgeEdges /\ LabelCount = 0) =>
              ~outcome.value.raised /\ Len(outcome.value.categories) = 5

\* C23 (amended): on increasing numeric edges, distinct labels fail exactly
\* when their number is not the number of edges minus one, so 4 labels for 5
\* edges are accepted and name the 4 bins, and 4 labels for 6 edges fail; the
\* 6 edges [0,18,35,50,65,100] without labels give exactly 5 categories.
C23_LabelsOneLessThanEdges ==
    Binned =>
        /\ ( /\ call.params.custom_bins \in { SubSeq(AgeEdges, 1, n) : n \in { 4, 7, 10, 13, 17 } }
             /\ LabelCount > 0
             /\ call.params.labels # << "a", ",", "a" >> ) =>
              /\ outcome.value.raised = (LabelCount # EdgeCount - 1)
              /\ outcome.value.raised => outcome.value.df = NoTable
              /\ ~outcome.value.raised =>
                    /\ Len(outcome.value.categories) = LabelCount
                    /\ HasColumn(outcome.value.df, "group")
        /\ (call.params.custom_bins = AgeEdges /\ LabelCount = 0) =>
              /\ ~outcome.value.raised
              /\ Len(outcome.value.categories) = 5
              /\ \A r \in 1..RowCount(call.df) :
                    Cell(outcome.value.df, r, "group") \in 1..5 \cup { NA }

\* 4 labels for 5 edges, accepted: the ages 18 and 19 fall into the first
\* and the second of 4 named bins
C23_Witness ==
    /\ Binned
    /\ EdgeCount = 5
    /\ LabelCount = 4
    /\ call.params.include_right
    /\ call.df.rows = << << 18 >>, << 19 >> >>
    /\ ~outcome.value.raised
    /\ Len(outcome.value.categories) = 4
    /\ Column(outcome.value.df, "group") = << 1, 2 >>

-----------------------------------------------------------------------------
(* create_calculated_column, in two steps: the namespace local_dict is     *)
(* built, then eval(expression, {"__builtins__": {}}, local_dict) runs.    *)
(* An expression is the sequence of its characters; events records the     *)
(* attributes of the numpy module the evaluation calls.                    *)

LetterChars == { "i", "d", "x", "y", "z", "s", "n", "p", "a", "b", "f", "r", "o", "m", "l", "e", "I", "D" }

\* col in expression, on strings: col occurs somewhere in the text
IsSubstring(chars, text) ==
    \E k \in 1..(Len(text) - Len(chars) + 1) : SubSeq(text, k, k + Len(chars) - 1) = chars

\* chars occurs in the text as a whole name
IsIdentifierOf(chars, text) ==
    \E k \in 1..(Len(text) - Len(chars) + 1) :
        /\ SubSeq(text, k, k + Len(chars) - 1) = chars
        /\ (k = 1 \/ text[k - 1] \notin LetterChars)
        /\ (k + Len(chars) > Len(text) \/ text[k + Len(chars)] \notin LetterChars)

\* the columns whose names are identifiers of the expression
ReferencedByName(df, expression) ==
    { col \in ColumnSet(df) : IsIdentifierOf(Chars(col), expression) }

\* {col: result[col] for col in result.columns if col in expression}
LocalColumns(df, expression) ==
    { col \in ColumnSet(df) : IsSubstring(Chars(col), expression) }

\* the tokens of the text: names (runs of letters) and single other characters
Tokens(text) ==
    LET starts == SelectSeq([ k \in 1..Len(text) |-> k ],
                            LAMBDA k : \/ text[k] \notin LetterChars
                                       \/ k = 1
                                       \/ text[k - 1] \notin LetterChars)
        end(m) == IF m = Len(starts) THEN Len(text) ELSE starts[m + 1] - 1
    IN  [ m \in 1..Len(starts) |-> SubSeq(text, starts[m], end(m)) ]

\* the column whose label is spelled by the token, None if there is none
NamedColumn(df, token) ==
    IF \E col \in ColumnSet(df) : Chars(col) = token
    THEN CHOOSE col \in ColumnSet(df) : Chars(col) = token
    ELSE None

\* eval: the value of the expression, for the forms <name>+1, 1,
\* np.abs(<name>) and np.fromfile(<name>); a name that is not in local_dict
\* raises NameError; calls lists the numpy attributes called
EvalExpression(df, expression, local_columns) ==
    LET tokens == Tokens(expression)
        bound(token) == NamedColumn(df, token) \in local_columns
        NameError == [ raised |-> TRUE, series |-> << >>, calls |-> << >> ]
    IN  IF Len(tokens) = 1
        THEN [ raised |-> FALSE, series |-> [ r \in 1..RowCount(df) |-> 1 ], calls |-> << >> ]
        ELSE IF Len(tokens) = 3
        THEN IF bound(tokens[1])
             THEN [ raised |-> FALSE,
                    series |-> [ r \in 1..RowCount(df) |->
                                   LET v == Cell(df, r, NamedColumn(df, tokens[1]))
                                   IN  IF IsNA(v) THEN NA ELSE v + 1 ],
                    calls |-> << >> ]
             ELSE NameError
        ELSE IF ~bound(tokens[5]) THEN NameError
        ELSE IF tokens[3] = << "a", "b", "s" >>
        THEN [ raised |-> FALSE, series |-> Column(df, NamedColumn(df, tokens[5])),
               calls |-> << "np.abs" >> ]
        ELSE [ raised |-> TRUE, series |-> << >>, calls |-> << "np.fromfile" >> ]

CalcNamespace ==
    /\ call.fn = "create_calculated_column"
    /\ at = "called"
    /\ outcome' = [ returned |-> FALSE,
                    local_dict |-> LocalColumns(call.df, call.expression) \cup { "np" } ]
    /\ at' = "namespace"
    /\ UNCHANGED << call, events >>
    /\ UNCHANGED merger

CalcEval ==
    /\ call.fn = "create_calculated_column"
    /\ at = "namespace"
    /\ LET value == EvalExpression(call.df, call.expression, outcome.local_dict)
       IN  /\ events' = events \o value.calls
           /\ outcome' = [ returned |-> TRUE,
                           local_dict |-> outcome.local_dict,
                           raised |-> value.raised,
                           df |-> IF value.raised THEN NoTable
                                  ELSE SetColumn(call.df, call.column_name, value.series),
                           input |-> call.df ]
    /\ at' = "returned"
    /\ UNCHANGED call
    /\ UNCHANGED merger

(* SpecCalculated: expressions over tables whose labels contain each other *)

MaxCalcRows == 2

CalcTables ==
    { Table(cols, rows) :
        cols \in { << "id", "x" >>, << "id", "idx" >>, << "x", "idx" >> },
        rows \in UNION { [ 1..n -> { << a, b >> : a \in { 1, 2 }, b \in { NA, 7 } } ] :
                           n \in 0..MaxCalcRows } }

Expressions ==
    { Chars(name) \o << "+", "1" >> : name \in { "id", "idx", "idz", "x" } }
        \cup { << "n", "p", ".", "a", "b", "s", "(" >> \o Chars(name) \o << ")" >> :
                 name \in { "id", "idx", "x" } }
        \cup { << "n", "p", ".", "f", "r", "o", "m", "f", "i", "l", "e", "(" >>
                   \o Chars(name) \o << ")" >> : name \in { "x" } }
        \cup { << "1" >> }

InitCalculated ==
    /\ NoMerge
    /\ call \in { [ fn |-> "create_calculated_column", df |-> df,
                     column_name |-> column_name, expression |-> expression ] :
                     df \in CalcTables, column_name \in { "ids", "x" },
                     expression \in Expressions }
    /\ at = "called"
    /\ events = << >>
    /\ outcome = NoResult

NextCalculated == CalcNamespace \/ CalcEval

SpecCalculated == InitCalculated /\ [][NextCalculated]_vars

\* every column of the namespace is a name the expression refers to
NamespaceColumnsReferenced ==
    (call.fn = "create_calculated_column" /\ at \in { "namespace", "returned" }) =>
        outcome.local_dict \ { "np" } = ReferencedByName(call.df, call.expression)

\* the evaluation calls nothing of the host but numeric functions
NumericFunctionsOnly ==
    call.fn = "create_calculated_column" =>
        \A k \in 1..Len(events) : events[k] \in { "np.abs" }

\* C24: the namespace of the evaluation holds only the columns the
\* expression refers to by name, and the numeric functions; a column whose
\* name is not an identifier of the expression is not in it, and nothing
\* else of the host can be reached.
C24_RestrictedNamespace == NamespaceColumnsReferenced /\ NumericFunctionsOnly

-----------------------------------------------------------------------------
(* The key of a smart merge.                                               *)

\* a tie-break: one candidate for each set of candidates, whatever the order
\* in which the set is iterated
TieBreak(keys) == CHOOSE key_col \in keys : TRUE

\* C25: the key a smart merge selects is fixed by the tables: among several
\* candidates the same one is selected in every run, by a tie-break and not
\* by the iteration order of the set of common columns.
C25_DeterministicKey ==
    \A k \in 1..Len(diagnostics) :
        diagnostics[k].kind = "selected_key" =>
            diagnostics[k].detail = << TieBreak(PotentialKeys(dfs)) >>

-----------------------------------------------------------------------------
(* SpecFuzzy: a Join on "x" of up to MaxFuzzyFiles tables whose other      *)
(* labels are similar to each other, with and without column matching.     *)

MaxFuzzyFiles == 3

FuzzyTables ==
    UNION { TablesOver(cols, 1, [ label \in { "x", "id", "idx" } |-> { 1 } ]) :
              cols \in { << "x" >>, << "x", "id" >>, << "x", "idx" >> } }

FuzzyFileLists == UNION { [ 1..n -> { GoodFile(t) : t \in FuzzyTables } ] : n \in 0..MaxFuzzyFiles }

FuzzyOptions ==
    { OptionsRecord(Join_, "x", "outer", matching, FALSE, FALSE, "None (keep NaN)") :
        matching \in BOOLEAN }

InitFuzzy == InitWith(FuzzyFileLists, FuzzyOptions)

SpecFuzzy == InitFuzzy /\ [][Next]_vars

\* the renames that align the labels cols with the labels of the accumulated
\* result: each label to its best match there, where that is another label
OntoAccumulated(cols, accumulated, threshold) ==
    LET items == SelectSeq(suggest_column_mapping(cols, accumulated, threshold),
                           LAMBDA it : it[1] # it[2])
    IN  [ c \in { items[m][1] : m \in 1..Len(items) } |->
            items[CHOOSE m \in 1..Len(items) : items[m][1] = c][2] ]

\* the tables, each from the k-th on aligned with the result of joining the
\* ones before it, immediately before it is joined itself
RECURSIVE AlignedBeforeJoin(_, _, _, _)
AlignedBeforeJoin(acc, frames, k, opts) ==
    IF k > Len(frames) THEN frames
    ELSE LET aligned == Rename(frames[k],
                               OntoAccumulated(frames[k].cols, acc.cols, Threshold(opts)))
             next == [ frames EXCEPT ![k] = aligned ]
         IN  IF MergeRaises(acc, aligned, opts.join_key, SuffixOf(k)) THEN next
             ELSE AlignedBeforeJoin(Merge(acc, aligned, opts.join_key, opts.join_type,
                                          SuffixOf(k)),
                                    next, k + 1, opts)

\* C26: in a Join with column matching, every table after the first is
\* aligned with the accumulated result of the joins before it (its labels
\* mapped onto the labels of that result), and every rename is recorded.
C26_AlignedToAccumulated ==
    [][ ( /\ pc = "merge"
          /\ options.merge_method = Join_
          /\ options.matching_columns
          /\ Len(dfs) > 1 )
        => /\ dfs' = AlignedBeforeJoin(dfs[1], dfs, 2, options)
           /\ \A k \in 2..Len(dfs) :
                 dfs'[k].cols # dfs[k].cols =>
                     \E m \in 1..Len(diagnostics') :
                         /\ diagnostics'[m].kind = "column_mapping"
                         /\ diagnostics'[m].file = file_names[k] ]_vars

-----------------------------------------------------------------------------
(* plugins/data_transformers/text_transformer.py:                          *)
(* TextPatternExtractor.transform.  A cell of these tables is a text, a     *)
(* number or NaN, so that astype(str) is computed and not assumed.         *)

TextCell(chars) == [ kind |-> "str", chars |-> chars ]

NumberCell(n) == [ kind |-> "int", value |-> n ]

NaNCell == [ kind |-> "nan" ]

\* series.astype(str), on one cell: str(value)
AsTypeStr(cell) ==
    CASE cell.kind = "str" -> cell
      [] cell.kind = "int" -> TextCell(<< ToString(cell.value) >>)
      [] cell.kind = "nan" -> TextCell(<< "n", "a", "n" >>)

\* re.compile(pattern) raises re.error; the patterns of the model are plain
\* texts, and "(" for one that does not compile
IsInvalidPattern(pattern) == pattern = << "(" >>

\* extract_pattern(text): the match of the pattern, or replace_na
ExtractPattern(text, pattern, replace_na) ==
    IF IsSubstring(pattern, text.chars) THEN TextCell(pattern) ELSE TextCell(replace_na)

PatternRaises(df) == [ raised |-> TRUE, df |-> NoTable, input |-> df ]

TextPatternExtract(df, params) ==
    LET source_column == Get(params, "source_column", None)
        target_column == Get(params, "target_column", None)
        pattern == Get(params, "pattern", << >>)
        replace_na == Get(params, "replace_na", << >>)
        as_text == SetColumn(df, source_column,
                             [ r \in 1..RowCount(df) |-> AsTypeStr(Cell(df, r, source_column)) ])
    IN  IF ~HasColumn(df, source_column) THEN PatternRaises(df)
        ELSE IF pattern = << >> THEN PatternRaises(df)
        ELSE IF IsInvalidPattern(pattern) THEN PatternRaises(df)
        ELSE [ raised |-> FALSE,
               df |-> SetColumn(as_text, target_column,
                                [ r \in 1..RowCount(df) |->
                                    ExtractPattern(Cell(as_text, r, source_column),
                                                   pattern, replace_na) ]),
               input |-> df ]

PatternTransform ==
    /\ call.fn = "TextPatternExtractor.transform"
    /\ at = "called"
    /\ outcome' = Returns(TextPatternExtract(call.df, call.params))
    /\ at' = "returned"
    /\ UNCHANGED << call, events >>
    /\ UNCHANGED merger

(* SpecPattern: a column "text" of up to MaxPatternRows cells, texts,      *)
(* numbers and missing cells, and a pattern extracted into "ids" or into   *)
(* "text" itself.                                                          *)

MaxPatternRows == 2

PatternCells == { TextCell(<< "i", "d", "x" >>), TextCell(<< "x" >>), NumberCell(1), NaNCell }

PatternTables ==
    { Table(<< "text" >>, rows) :
        rows \in UNION { [ 1..n -> { << c >> : c \in PatternCells } ] : n \in 0..MaxPatternRows } }

PatternParams ==
    LET base == [ source_column : { "text", "zz" }, target_column : { "ids", "text" },
                  pattern : { << "i", "d" >>, << "(" >>, << >> } ]
    IN  base \cup { [ k \in DOMAIN p \cup { "replace_na" } |->
                        IF k = "replace_na" THEN << "-" >> ELSE p[k] ] : p \in base }

InitPattern ==
    /\ NoMerge
    /\ call \in { [ fn |-> "TextPatternExtractor.transform", df |-> df, params |-> params ] :
                    df \in PatternTables, params \in PatternParams }
    /\ at = "called"
    /\ events = << >>
    /\ outcome = NoResult

NextPattern == PatternTransform

SpecPattern == InitPattern /\ [][NextPattern]_vars

\* the returned table has the rows and the columns of the caller's table,
\* every column but the target with the values it had, and the caller's
\* table is as it was
FrameKept(result, target_column) ==
    /\ result.input = call.df
    /\ ~result.raised =>
          /\ RowCount(result.df) = RowCount(call.df)
          /\ ColumnSet(result.df) = ColumnSet(call.df) \cup { target_column }
          /\ \A c \in ColumnSet(call.df) \ { target_column } :
                Column(result.df, c) = Column(call.df, c)

PatternFrame ==
    (call.fn = "TextPatternExtractor.transform" /\ at = "returned") =>
        FrameKept(outcome.value, call.params.target_column)

MathFrame ==
    (call.fn = "MathOperationTransformer.transform" /\ at = "returned"
        /\ call.params.operator \in { "+", "*", "/", "%" }) =>
        FrameKept(outcome.value, call.params.target_column)

BinFrame ==
    (call.fn = "BinningTransformer.transform" /\ at = "returned") =>
        FrameKept(outcome.value, call.params.target_column)

\* C27: transform returns a new table with the rows of the caller's table,
\* in which only the target column is created or overwritten: every other
\* column, the source column of a pattern extraction included, holds the
\* values it held, and the caller's table is not modified.
C27_OnlyTargetChanges == PatternFrame /\ MathFrame /\ BinFrame

-----------------------------------------------------------------------------
(* FileMerger.handle and render_data_preview_and_download: the buttons of  *)
(* the page, each pressed while no call of process_files is running.  call *)
(* is the button pressed last, events the message it ended with, outcome   *)
(* the table the latest successful call of process_files returned.         *)

\* st.session_state.last_merge_time = None
NoTime == 0

\* a transformation raised, or gave the table df
Failed == [ raised |-> TRUE, df |-> NoTable ]

Done(t) == [ raised |-> FALSE, df |-> t ]

\* an assignment to st.session_state.merged_df made whether or not the
\* transformation raised
StoredAlways(current, result) == SomeDf(result.df)

\* st.session_state.merged_df after the try block of a transformation: the
\* assignment is its last statement but the messages
StoredAfter(current, result) == IF result.raised THEN current ELSE SomeDf(result.df)

\* the message of the try block
MessageAfter(result) == IF result.raised THEN << "st.error" >> ELSE << "st.success" >>

\* "Merge Files": process_files is called on the uploaded files
PressMerge(filelists, optionset) ==
    /\ pc = "idle"
    /\ uploaded_files' \in filelists
    /\ options' \in optionset
    /\ pc' = "start"
    /\ i' = 1
    /\ dfs' = << >>
    /\ file_names' = << >>
    /\ error_messages' = << >>
    /\ attempted' = << >>
    /\ diagnostics' = << >>
    /\ ret' = NoReturn
    /\ call' = [ fn |-> "process_files" ]
    /\ at' = "running"
    /\ events' = << >>
    /\ UNCHANGED << merged_df, last_merge_time, original_merged_df, outcome >>

\* handle, after process_files has returned or raised
HandleResult ==
    /\ pc = "done"
    /\ call.fn = "process_files"
    /\ IF ret.how = "returned" /\ ret.df.has
       THEN /\ original_merged_df' = IF original_merged_df.has THEN original_merged_df
                                     ELSE SomeDf(ret.df.df)
            /\ outcome' = Returns(ret.df.df)
            /\ events' = << >>
       ELSE /\ events' = << "st.error" >>
            /\ UNCHANGED << original_merged_df, outcome >>
    /\ pc' = "idle"
    /\ at' = "idle"
    /\ uploaded_files' = << >>
    /\ i' = 1
    /\ dfs' = << >>
    /\ file_names' = << >>
    /\ error_messages' = << >>
    /\ attempted' = << >>
    /\ diagnostics' = << >>
    /\ ret' = NoReturn
    /\ UNCHANGED << options, call, merged_df, last_merge_time >>

\* the preview, with its buttons, is rendered for a table that is not empty
Previewed == pc = "idle" /\ merged_df.has /\ ~IsEmpty(merged_df.df)

\* "Add calculated column"
CalculatedColumnButton ==
    /\ Previewed
    /\ \E column_name \in { "idx" }, column \in { "x", "idz" } :
          LET df == merged_df.df
              expression == [ column |-> column, addend |-> 1 ]
              result == IF HasColumn(df, column)
                        THEN Done(SetColumn(df, column_name, Evaluate(df, expression)))
                        ELSE Failed
          IN  /\ call' = [ fn |-> "create_calculated_column", column_name |-> column_name,
                           expression |-> expression ]
              /\ merged_df' = StoredAfter(merged_df, result)
              /\ events' = MessageAfter(result)
    /\ UNCHANGED << at, outcome, last_merge_time, original_merged_df >>
    /\ UNCHANGED << uploaded_files, options, pc, i, dfs, file_names, error_messages,
                    attempted, diagnostics, ret >>

\* "Convert column type", to number: the cells of the model are numbers
ConvertTypeButton ==
    /\ Previewed
    /\ \E col_to_convert \in ColumnSet(merged_df.df) :
          LET result == Done(merged_df.df)
          IN  /\ call' = [ fn |-> "convert_column_type", column |-> col_to_convert ]
              /\ merged_df' = StoredAfter(merged_df, result)
              /\ events' = MessageAfter(result)
    /\ UNCHANGED << at, outcome, last_merge_time, original_merged_df >>
    /\ UNCHANGED << uploaded_files, options, pc, i, dfs, file_names, error_messages,
                    attempted, diagnostics, ret >>

\* "Replace values": the value to find is the text typed, which no number
\* equals
ReplaceValuesButton ==
    /\ Previewed
    /\ \E col_to_modify \in ColumnSet(merged_df.df) :
          LET result == Done(merged_df.df)
          IN  /\ call' = [ fn |-> "replace_values", column |-> col_to_modify ]
              /\ merged_df' = StoredAfter(merged_df, result)
              /\ events' = MessageAfter(result)
    /\ UNCHANGED << at, outcome, last_merge_time, original_merged_df >>
    /\ UNCHANGED << uploaded_files, options, pc, i, dfs, file_names, error_messages,
                    attempted, diagnostics, ret >>

\* "Apply filter": "equals" compares the cells with the text typed, which no
\* number equals; "greater than" compares them with float(filter_value),
\* which raises for a text that is not a number
FilterRowsButton ==
    /\ Previewed
    /\ \E filter_col \in ColumnSet(merged_df.df), filter_type \in { "equals", "greater than" },
          filter_value \in { 1, NotNumber } :
          LET df == merged_df.df
              result ==
                  IF filter_type = "equals"
                  THEN Done(FilterRows(df, [ r \in 1..RowCount(df) |-> FALSE ]))
                  ELSE IF filter_value = NotNumber THEN Failed
                  ELSE Done(FilterRows(df, [ r \in 1..RowCount(df) |->
                                               /\ ~IsNA(Cell(df, r, filter_col))
                                               /\ Cell(df, r, filter_col) > filter_value ]))
          IN  /\ call' = [ fn |-> "filter_rows", column |-> filter_col,
                           filter_type |-> filter_type, value |-> filter_value ]
              /\ merged_df' = StoredAfter(merged_df, result)
              /\ events' = MessageAfter(result)
    /\ UNCHANGED << at, outcome, last_merge_time, original_merged_df >>
    /\ UNCHANGED << uploaded_files, options, pc, i, dfs, file_names, error_messages,
                    attempted, diagnostics, ret >>

\* "Reset all transformations"
ResetTransformations ==
    /\ Previewed
    /\ call' = [ fn |-> "reset_transformations" ]
    /\ IF original_merged_df.has
       THEN /\ merged_df' = original_merged_df
            /\ events' = << "st.success" >>
       ELSE /\ events' = << "st.warning" >>
            /\ UNCHANGED merged_df
    /\ UNCHANGED << at, outcome, last_merge_time, original_merged_df >>
    /\ UNCHANGED << uploaded_files, options, pc, i, dfs, file_names, error_messages,
                    attempted, diagnostics, ret >>

\* "Reset": the keys are deleted, and __init__ sets merged_df and
\* last_merge_time to None on the rerun
ResetSession ==
    /\ pc = "idle"
    /\ call' = [ fn |-> "reset" ]
    /\ events' = << >>
    /\ merged_df' = NoDf
    /\ last_merge_time' = NoTime
    /\ original_merged_df' = NoDf
    /\ outcome' = NoResult
    /\ UNCHANGED at
    /\ UNCHANGED << uploaded_files, options, pc, i, dfs, file_names, error_messages,
                    attempted, diagnostics, ret >>

(* SpecSession: a session of merges, transformations and resets.           *)

SessionTables ==
    { Table(<< "id", "x" >>, << << 1, 1 >>, << 2, 2 >> >>),
      Table(<< "id" >>, << << 3 >> >>),
      Table(<< "x" >>, << << 1 >> >>) }

\* one or two files: tables, and the file of an unsupported format
SessionFileLists ==
    LET files == { GoodFile(t) : t \in SessionTables }
                     \cup { UploadedFile(1024, "txt", TRUE, NoTable) }
    IN  UNION { [ 1..n -> files ] : n \in 1..2 }

\* Append, and Join on "id", which raises for the table without "id"
SessionOptions ==
    { OptionsRecord(Append_, None, "outer", FALSE, TRUE, FALSE, "None (keep NaN)"),
      OptionsRecord(Join_, "id", "outer", FALSE, TRUE, FALSE, "None (keep NaN)") }

MergeButton == PressMerge(SessionFileLists, SessionOptions)

\* the session __init__ leaves: no merge has been made
InitSession ==
    /\ uploaded_files = << >>
    /\ options \in SessionOptions
    /\ pc = "idle"
    /\ i = 1
    /\ dfs = << >>
    /\ file_names = << >>
    /\ error_messages = << >>
    /\ attempted = << >>
    /\ diagnostics = << >>
    /\ ret = NoReturn
    /\ merged_df = NoDf
    /\ last_merge_time = NoTime
    /\ original_merged_df = NoDf
    /\ NoUtilityCall

NextSession ==
    \/ MergeButton \/ Start \/ LoadFile \/ CheckErrors \/ CleanDf \/ MergeFrames \/ HandleResult
    \/ CalculatedColumnButton \/ ConvertTypeButton \/ ReplaceValuesButton \/ FilterRowsButton
    \/ ResetTransformations \/ ResetSession

SpecSession == InitSession /\ [][NextSession]_vars

\* a step of process_files that does not end the call with a merged table
FailingMergeStep ==
    /\ call.fn = "process_files"
    /\ pc \in { "start", "load", "check", "clean", "merge" }
    /\ ~ret'.df.has

\* a press of a transformation button that ends with st.error
FailingTransformation ==
    /\ pc = "idle"
    /\ call'.fn \in { "create_calculated_column", "convert_column_type", "replace_values",
                      "filter_rows" }
    /\ events' = << "st.error" >>

\* the step of process_files that returns the merged table
SuccessfulMerge ==
    /\ call.fn = "process_files"
    /\ pc = "merge"
    /\ ret'.df.has

SuccessfulTransformation ==
    /\ pc = "idle"
    /\ call'.fn \in { "create_calculated_column", "convert_column_type", "replace_values",
                      "filter_rows" }
    /\ events' = << "st.success" >>

ResetPressed == pc = "idle" /\ call'.fn \in { "reset_transformations", "reset" }

\* C28: a call of process_files that ends with errors or an exception, and a
\* transformation that raises, leave st.session_state.merged_df and
\* last_merge_time as they were; of merges and transformations only the
\* successful ones write them (the two reset buttons are the other writers)
C28_FailureKeepsSession ==
    [][ /\ FailingMergeStep \/ FailingTransformation
            => merged_df' = merged_df /\ last_merge_time' = last_merge_time
        /\ merged_df' # merged_df \/ last_merge_time' # last_merge_time
            => SuccessfulMerge \/ SuccessfulTransformation \/ ResetPressed ]_vars

\* a merge has ended with errors while the session holds the transformed
\* table of an earlier merge
C28_Witness ==
    /\ pc = "done"
    /\ call.fn = "process_files"
    /\ ret.has_errors
    /\ merged_df.has
    /\ original_merged_df.has
    /\ merged_df # original_merged_df
    /\ last_merge_time = CallTime

\* C29: after "Reset all transformations" the session holds the table the
\* most recent successful merge returned
C29_ResetToLatestMerge ==
    call.fn = "reset_transformations" /\ events = << "st.success" >> /\ outcome.returned
        => merged_df = SomeDf(outcome.value)

\* C30: in a Join with column matching, every table that holds the join key
\* before the renames of the matching loop holds a column of exactly that
\* name after them.
C30_KeyColumnKept ==
    [][ ( /\ pc = "merge"
          /\ options.merge_method = Join_
          /\ options.matching_columns )
        => /\ Len(dfs') = Len(dfs)
           /\ \A k \in 1..Len(dfs) :
                 HasColumn(dfs[k], options.join_key)
                     => HasColumn(dfs'[k], options.join_key) ]_vars

====
